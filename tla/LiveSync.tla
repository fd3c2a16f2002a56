------------------------------ MODULE LiveSync ------------------------------
(***************************************************************************)
(* partialSync of LiveSyncServiceBase with its SyncBatch and its           *)
(* dispatcher: a watcher reports what happens to the files of a project,   *)
(* each report becomes an action of a serial queue, changed files are      *)
(* collected in a batch for each platform, and half a second after the     *)
(* last of them another action of the same queue sends the batches.        *)
(*                                                                         *)
(* The files go on changing while reports wait, while a file is hashed and *)
(* while it is sent.  A platform stands for the devices execute covers.    *)
(***************************************************************************)
EXTENDS Naturals, Sequences, SequencesExt

CONSTANTS
    Files,       \* files of the project
    Platforms,   \* platforms live synced
    Data,        \* the ILiveSyncData items, a sequence of platforms
    Takes,       \* the files a platform takes: not excluded, and mapped
    Contents,    \* contents of a file
    Missing,     \* no such file; its hash is the empty string
    Unknown,     \* no hash recorded
    MaxEdits,    \* changes of the files (bound)
    MaxFailures  \* failures of devices (bound)

ASSUME LiveSyncAssumption ==
    /\ Data \in Seq(Platforms) /\ IsInjective(Data)
    /\ \A p \in Platforms : \E i \in DOMAIN Data : Data[i] = p
    /\ Takes \in [Platforms -> SUBSET Files]
    /\ \A f \in Files : \E p \in Platforms : f \in Takes[p]
    /\ Missing \notin Contents /\ Unknown \notin Contents \cup {Missing}
    /\ MaxEdits \in Nat /\ MaxFailures \in Nat

VARIABLES
    disk,      \* the files on disk (environment)
    edits,     \* changes so far (bound)
    failures,  \* failures so far (bound)
    fileHashes,\* the hash recorded for a file
    actions,   \* the queue of the dispatcher
    now,       \* the action it runs
    batch,     \* the files in the batch of each platform
    opened,    \* the platforms with a batch, in the order they were first given one
    timer,     \* the timer of the batch runs
    dones,     \* timers of done that run
    device,    \* the files on the devices of a platform
    told,      \* history: the user was told this file could not be removed
    ahead,     \* history: files sent with another content than the one recorded
    aborted    \* history: a sync failed since a file was last added for the platform

files == <<disk, edits>>
batches == <<batch, opened, timer, dones, aborted>>
devices == <<device, told, ahead>>
vars == <<files, failures, fileHashes, actions, now, batches, devices>>

Idle == [do |-> "idle"]
Event(event, f) == [do |-> "event", event |-> event, file |-> f]
Sync == [do |-> "sync"]

Hashing(event, f) == [do |-> "hash", event |-> event, file |-> f]
\* The place in Data, or in opened, of the platform it is at.
Removing(f, place) == [do |-> "remove", file |-> f, place |-> place]
Sending(place, sent) == [do |-> "send", place |-> place, sent |-> sent]

Events == {"added", "changed", "deleted"}
Queued == {Event(e, f) : e \in Events, f \in Files} \cup {Sync}

\* A report of a file goes over the items whose platform takes it: the place
\* of the first one from a place on, 0 when there is none.
NextTaker(f, from) == SelectInSubSeq(Data, from, Len(Data), LAMBDA p : f \in Takes[p])

\* The platforms at which the action that runs is, or to which it has yet to come.
ToRemoveFrom == IF now.do = "remove" THEN {Data[i] : i \in now.place .. Len(Data)} ELSE {}
ToSend == IF now.do = "send" THEN {opened[i] : i \in now.place .. Len(opened)} ELSE {}

TypeOK ==
    /\ disk \in [Files -> Contents \cup {Missing}]
    /\ edits \in 0 .. MaxEdits /\ failures \in 0 .. MaxFailures
    /\ fileHashes \in [Files -> Contents \cup {Missing, Unknown}]
    /\ actions \in Seq(Queued)
    /\ \/ now = Idle
       \/ now \in {Hashing(e, f) : e \in Events, f \in Files}
       \/ \E f \in Files, i \in DOMAIN Data : now = Removing(f, i) /\ f \in Takes[Data[i]]
       \/ \E i \in DOMAIN opened : \E sent \in SUBSET batch[opened[i]] : now = Sending(i, sent)
    /\ batch \in [Platforms -> SUBSET Files]
    /\ \A p \in Platforms : batch[p] \subseteq Takes[p]
    /\ opened \in Seq(Platforms) /\ IsInjective(opened)
    /\ \A p \in Platforms : batch[p] # {} => Contains(opened, p)
    /\ timer \in [Platforms -> BOOLEAN] /\ dones \in Nat
    /\ device \in [Platforms -> [Files -> Contents \cup {Missing}]]
    /\ told \in [Platforms -> SUBSET Files]
    /\ ahead \in [Platforms -> SUBSET Files]
    /\ aborted \in [Platforms -> BOOLEAN]

\* The full sync that comes before the watch has brought the devices up to date.
Init ==
    /\ disk \in [Files -> Contents \cup {Missing}]
    /\ edits = 0
    /\ failures = 0
    /\ fileHashes = [f \in Files |-> Unknown]
    /\ actions = <<>>
    /\ now = Idle
    /\ batch = [p \in Platforms |-> {}]
    /\ opened = <<>>
    /\ timer = [p \in Platforms |-> FALSE]
    /\ dones = 0
    /\ device = [p \in Platforms |-> disk]
    /\ told = [p \in Platforms |-> {}]
    /\ ahead = [p \in Platforms |-> {}]
    /\ aborted = [p \in Platforms |-> FALSE]

-----------------------------------------------------------------------------
\* dispatch puts an action at the end of the queue, whatever runs now.
Dispatch(action) == actions' = Append(actions, action)

\* run takes the first one as soon as the action before it has settled.
Dequeue(action) ==
    /\ now = Idle
    /\ actions # <<>> /\ Head(actions) = action
    /\ actions' = Tail(actions)

\* Somebody saves, creates or deletes a file, and the watcher reports it.
Edit(f) ==
    /\ edits < MaxEdits
    /\ edits' = edits + 1
    /\ \E c \in Contents \cup {Missing} :
          /\ c = Missing => disk[f] # Missing
          /\ disk' = [disk EXCEPT ![f] = c]
          /\ LET event == IF c = Missing THEN "deleted"
                          ELSE IF disk[f] = Missing THEN "added" ELSE "changed"
             IN  Dispatch(Event(event, f))
    /\ UNCHANGED <<failures, fileHashes, now, batches, devices>>

-----------------------------------------------------------------------------
\* The order of some platforms in Data, as the one element of a set.
InDataOrder(platforms) ==
    {order \in SeqOf(platforms, Len(Data)) :
        /\ ToSet(order) = platforms
        /\ \A i, j \in DOMAIN order : i < j =>
              \E k, l \in DOMAIN Data : k < l /\ Data[k] = order[i] /\ Data[l] = order[j]}

\* Mutant of AddToBatches: only a platform's first batch starts the timer.
AddToBatchesOnce(f) ==
    LET takers == {p \in Platforms : f \in Takes[p]} IN
    /\ batch' = [p \in Platforms |-> batch[p] \cup ({f} \cap Takes[p])]
    /\ \E more \in InDataOrder({p \in takers : ~Contains(opened, p)}) : opened' = opened \o more
    /\ timer' = [p \in Platforms |-> timer[p] \/ (p \in takers /\ ~Contains(opened, p))]
    /\ aborted' = [p \in Platforms |-> p \notin takers /\ aborted[p]]
    /\ UNCHANGED dones

\* addFile for every platform that takes the file; a batch with nothing
\* pending is replaced by a new one, at the same place among the batches.
AddToBatches(f) ==
    LET takers == {p \in Platforms : f \in Takes[p]} IN
    /\ batch' = [p \in Platforms |-> batch[p] \cup ({f} \cap Takes[p])]
    /\ \E more \in InDataOrder({p \in takers : ~Contains(opened, p)}) : opened' = opened \o more
    /\ timer' = [p \in Platforms |-> p \in takers \/ timer[p]]
    /\ aborted' = [p \in Platforms |-> p \notin takers /\ aborted[p]]
    /\ UNCHANGED dones

\* Mutant of Handle: the hash of a deleted file stays recorded.
HandleKeepingHash(event, f, hash) ==
    \/ /\ hash = fileHashes[f]
       /\ now' = Idle
       /\ UNCHANGED <<fileHashes, batches>>
    \/ /\ hash # fileHashes[f]
       /\ event # "deleted"
       /\ fileHashes' = [fileHashes EXCEPT ![f] = hash]
       /\ AddToBatches(f)
       /\ now' = Idle
    \/ /\ hash # fileHashes[f]
       /\ event = "deleted"
       /\ now' = Removing(f, NextTaker(f, 1))
       /\ UNCHANGED <<fileHashes, batches>>

\* The handler has a hash.  One that is already recorded ends it; otherwise it
\* is recorded before anything is sent.
Handle(event, f, hash) ==
    \/ /\ hash = fileHashes[f]
       /\ now' = Idle
       /\ UNCHANGED <<fileHashes, batches>>
    \/ /\ hash # fileHashes[f]
       /\ event # "deleted"
       /\ fileHashes' = [fileHashes EXCEPT ![f] = hash]
       /\ AddToBatches(f)
       /\ now' = Idle
    \/ /\ hash # fileHashes[f]
       /\ event = "deleted"
       /\ fileHashes' = [fileHashes EXCEPT ![f] = Unknown]
       /\ now' = Removing(f, NextTaker(f, 1))
       /\ UNCHANGED batches

\* The handler of a report starts: the hash of a file that is not there is the
\* empty string, the one of a file that is there is awaited.
StartEvent(event, f) ==
    /\ Dequeue(Event(event, f))
    /\ \/ /\ disk[f] = Missing
          /\ Handle(event, f, Missing)
       \/ /\ disk[f] # Missing
          /\ now' = Hashing(event, f)
          /\ UNCHANGED <<fileHashes, batches>>
    /\ UNCHANGED <<files, failures, devices>>

\* The file was read; if it has gone meanwhile the handler fails.
Hashed ==
    /\ now.do = "hash"
    /\ IF disk[now.file] = Missing
       THEN now' = Idle /\ UNCHANGED <<fileHashes, batches>>
       ELSE Handle(now.event, now.file, disk[now.file])
    /\ UNCHANGED <<files, failures, actions, devices>>

\* syncRemovedFile for the next platform.
RemoveFile ==
    /\ now.do = "remove"
    /\ LET f == now.file
           p == Data[now.place]
           next == NextTaker(f, now.place + 1)
       IN  /\ device' = [device EXCEPT ![p][f] = Missing]
           /\ told' = [told EXCEPT ![p] = @ \ {f}]
           /\ ahead' = [ahead EXCEPT ![p] = @ \ {f}]
           /\ now' = IF next = 0 THEN Idle ELSE Removing(f, next)
    /\ UNCHANGED <<files, failures, fileHashes, actions, batches>>

\* It fails: the platforms that are left are not asked, the user is told.
RemoveFails ==
    /\ now.do = "remove" /\ failures < MaxFailures
    /\ failures' = failures + 1
    /\ told' = [p \in Platforms |-> IF p \in ToRemoveFrom THEN told[p] \cup ({now.file} \cap Takes[p]) ELSE told[p]]
    /\ now' = Idle
    /\ UNCHANGED <<files, fileHashes, actions, batches, device, ahead>>

-----------------------------------------------------------------------------
\* The timer of a batch runs out: done starts another one if anything is pending.
BatchTimer(p) ==
    /\ timer[p]
    /\ timer' = [timer EXCEPT ![p] = FALSE]
    /\ dones' = IF batch[p] # {} THEN dones + 1 ELSE dones
    /\ UNCHANGED <<files, failures, fileHashes, actions, now, batch, opened, aborted, devices>>

\* Mutant of Done: nothing is dispatched while the dispatcher runs an action.
DoneUnlessBusy ==
    /\ dones > 0
    /\ dones' = dones - 1
    /\ actions' = IF now = Idle THEN Append(actions, Sync) ELSE actions
    /\ UNCHANGED <<files, failures, fileHashes, now, batch, opened, timer, aborted, devices>>

Done ==
    /\ dones > 0
    /\ dones' = dones - 1
    /\ Dispatch(Sync)
    /\ UNCHANGED <<files, failures, fileHashes, now, batch, opened, timer, aborted, devices>>

\* From a place on, the next platform that has files in its batch.
NextBatch(from) ==
    LET i == SelectInSubSeq(opened, from, Len(opened), LAMBDA p : batch[p] # {})
    IN  IF i = 0 THEN Idle ELSE Sending(i, {})

\* The action dispatched by done goes over the batches.
StartSync ==
    /\ Dequeue(Sync)
    /\ now' = NextBatch(1)
    /\ UNCHANGED <<files, failures, fileHashes, batches, devices>>

\* One file of the batch is transferred, with the content it has by now.
SendFile(f) ==
    /\ now.do = "send" /\ disk[f] # Missing
    /\ LET p == opened[now.place]
       IN  /\ f \in batch[p] \ now.sent
           /\ device' = [device EXCEPT ![p][f] = disk[f]]
           /\ told' = [told EXCEPT ![p] = @ \ {f}]
           /\ ahead' = [ahead EXCEPT ![p] = IF fileHashes[f] = disk[f] THEN @ \ {f} ELSE @ \cup {f}]
           /\ now' = [now EXCEPT !.sent = @ \cup {f}]
    /\ UNCHANGED <<files, failures, fileHashes, actions, batches>>

\* Mutant of SendFails: the batch is reset however its transfer ends.
SendFailsAndResets ==
    /\ now.do = "send"
    /\ \/ /\ failures < MaxFailures
          /\ failures' = failures + 1
       \/ /\ \E f \in batch[opened[now.place]] \ now.sent : disk[f] = Missing
          /\ UNCHANGED failures
    /\ now' = Idle
    /\ batch' = [batch EXCEPT ![opened[now.place]] = {}]
    /\ aborted' = [p \in Platforms |-> aborted[p] \/ batch[p] # {}]
    /\ UNCHANGED <<files, fileHashes, actions, opened, timer, dones, devices>>

\* The device fails, or a file of the batch is gone: the batch stays as it is,
\* and so do those of the platforms that are left.
SendFails ==
    /\ now.do = "send"
    /\ \/ /\ failures < MaxFailures
          /\ failures' = failures + 1
       \/ /\ \E f \in batch[opened[now.place]] \ now.sent : disk[f] = Missing
          /\ UNCHANGED failures
    /\ now' = Idle
    /\ aborted' = [p \in Platforms |-> aborted[p] \/ batch[p] # {}]
    /\ UNCHANGED <<files, fileHashes, actions, batch, opened, timer, dones, devices>>

\* All of them are sent: reset, and on to the next platform.
Reset ==
    /\ now.do = "send" /\ now.sent = batch[opened[now.place]]
    /\ batch' = [batch EXCEPT ![opened[now.place]] = {}]
    /\ aborted' = [aborted EXCEPT ![opened[now.place]] = FALSE]
    /\ now' = NextBatch(now.place + 1)
    /\ UNCHANGED <<files, failures, fileHashes, actions, opened, timer, dones, devices>>

\* Nobody edits, and nothing waits or runs.
Quiet ==
    /\ edits = MaxEdits /\ actions = <<>> /\ now = Idle /\ dones = 0
    /\ \A p \in Platforms : ~timer[p]
    /\ UNCHANGED vars

Dispatcher ==
    \/ \E event \in Events, f \in Files : StartEvent(event, f)
    \/ Hashed \/ RemoveFile \/ RemoveFails
    \/ StartSync
    \/ \E f \in Files : SendFile(f)
    \/ SendFails \/ Reset

Next ==
    \/ \E f \in Files : Edit(f)
    \/ \E p \in Platforms : BatchTimer(p)
    \/ Done
    \/ Dispatcher
    \/ Quiet

Spec == Init /\ [][Next]_vars

\* Timers run out, and run takes one action after the other: its promises settle.
FairSpec ==
    /\ Spec
    /\ WF_vars(Dispatcher)
    /\ WF_vars(Done)
    /\ \A p \in Platforms : WF_vars(BatchTimer(p))

-----------------------------------------------------------------------------
QueuedEvent(f) == \E i \in DOMAIN actions : actions[i].do = "event" /\ actions[i].file = f
Reported(f) ==
    \/ QueuedEvent(f)
    \/ now.do = "hash" /\ now.file = f

\* A recorded hash is the one of the file on disk, unless a report of the file
\* waits: hashes that are compared with a later report never skip news (66-72).
HashesFollowDisk ==
    \A f \in Files :
        fileHashes[f] \in {disk[f], Unknown} \/ Reported(f)

\* A device that does not have what is on disk is waiting for it: a report of
\* the file waits or is handled, or the file is in the batch.  Otherwise the
\* user was told that a removal failed, or the file changed between its hash and
\* its transfer and then back: the report of that is skipped by the hash.  In
\* particular reset drops nothing that was added while the batch was sent.
OutOfDateIsPending ==
    \A p \in Platforms : \A f \in Takes[p] :
        device[p][f] # disk[f] =>
            \/ Reported(f)
            \/ p \in ToRemoveFrom /\ now.file = f
            \/ f \in batch[p]
            \/ f \in told[p]
            \/ f \in ahead[p]

\* A batch that has files will be sent: its timer or the one of done runs, the
\* action is queued or on its way to it.  Only a sync that failed since leaves
\* one behind: nothing but the next change of a file tries again.
BatchHasAFuture ==
    \A p \in Platforms :
        batch[p] # {} =>
            \/ timer[p]
            \/ dones > 0
            \/ Contains(actions, Sync)
            \/ p \in ToSend
            \/ aborted[p]

\* A file in a batch is sent with it, or a sync fails.  Later failures and
\* earlier platforms can put it off, a batch that is forgotten can not.
BatchedIsSent ==
    \A p \in Platforms : batch[p] # {} ~> (batch[p] = {} \/ aborted[p])
=============================================================================
