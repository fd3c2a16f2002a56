--------------------------- MODULE LiveSyncProofs ---------------------------
(***************************************************************************)
(* Live sync loses no change of a file, for any files, platforms and items *)
(* and however long it runs: what the hashes know follows the disk, a      *)
(* device that is out of date is waiting for what it lacks, and a batch    *)
(* with files will be sent.                                                *)
(***************************************************************************)
EXTENDS LiveSync, SequenceTheorems, WellFoundedInduction, TLAPS

-----------------------------------------------------------------------------
(* Facts about sequences *)

\* A set of numbers has a smallest one.
LEMMA SmallestNumber ==
    ASSUME NEW S \in SUBSET Nat, S # {}
    PROVE  Min(S) \in S /\ \A n \in S : Min(S) <= n
<1>1. IsWellFoundedOn(OpToRel(<, Nat), Nat)
  BY NatLessThanWellFounded
<1>2. PICK m \in S : \A n \in S : ~ (<<n, m>> \in OpToRel(<, Nat))
  BY <1>1, WFMin
<1>3. \A n \in S : ~ (n < m)
  BY <1>2 DEF OpToRel
<1>4. \A n \in S : m <= n
  BY <1>3
<1> QED
  BY <1>2, <1>4 DEF Min

\* The next item whose platform takes a file.
LEMMA NextTakerIsNext ==
    ASSUME NEW f \in Files, NEW from \in Nat \ {0}
    PROVE  LET i == NextTaker(f, from) IN
           \/ i = 0 /\ \A j \in from .. Len(Data) : f \notin Takes[Data[j]]
           \/ /\ i \in from .. Len(Data) /\ f \in Takes[Data[i]]
              /\ \A j \in from .. i - 1 : f \notin Takes[Data[j]]
<1> DEFINE I == {i \in from .. Len(Data) : f \in Takes[Data[i]]}
<1>1. Len(Data) \in Nat
  BY LiveSyncAssumption
<1>2. I \in SUBSET Nat
  BY <1>1
<1>3. NextTaker(f, from) = IF I # {} THEN Min(I) ELSE 0
  BY DEF NextTaker, SelectInSubSeq
<1>4. CASE I = {}
  BY <1>3, <1>4
<1>5. CASE I # {}
  <2>1. Min(I) \in I /\ \A n \in I : Min(I) <= n
    BY <1>2, <1>5, SmallestNumber
  <2> HIDE DEF I
  <2>2. NextTaker(f, from) = Min(I)
    BY <1>3, <1>5
  <2>3. \A j \in from .. Min(I) - 1 : f \notin Takes[Data[j]]
    BY <1>1, <2>1 DEF I
  <2> QED
    BY <2>1, <2>2, <2>3 DEF I
<1> QED
  BY <1>4, <1>5

\* The next platform that has files in its batch.
LEMMA NextBatchIsNext ==
    ASSUME NEW from \in Nat \ {0}, opened \in Seq(Platforms)
    PROVE  \/ NextBatch(from) = Idle /\ \A j \in from .. Len(opened) : batch[opened[j]] = {}
           \/ \E i \in from .. Len(opened) :
                 /\ NextBatch(from) = Sending(i, {})
                 /\ \A j \in from .. i - 1 : batch[opened[j]] = {}
<1> DEFINE I == {i \in from .. Len(opened) : batch[opened[i]] # {}}
           i == IF I # {} THEN Min(I) ELSE 0
<1>1. I \in SUBSET Nat /\ Len(opened) \in Nat
  OBVIOUS
<1>2. NextBatch(from) = IF i = 0 THEN Idle ELSE Sending(i, {})
  BY DEF NextBatch, SelectInSubSeq
<1>3. CASE I = {}
  BY <1>2, <1>3
<1>4. CASE I # {}
  <2>1. Min(I) \in I /\ \A n \in I : Min(I) <= n
    BY <1>1, <1>4, SmallestNumber
  <2>2. i = Min(I)
    BY <1>4
  <2> HIDE DEF I, i
  <2>3. i \in from .. Len(opened) /\ i # 0
    BY <1>1, <2>1, <2>2 DEF I
  <2>4. ASSUME NEW j \in from .. i - 1 PROVE batch[opened[j]] = {}
    <3>1. j \in from .. Len(opened) /\ ~ (i <= j)
      BY <1>1, <2>3
    <3>2. j \notin I
      BY <2>1, <2>2, <3>1
    <3> QED
      BY <3>1, <3>2 DEF I
  <2> QED
    BY <1>2, <2>3, <2>4
<1> QED
  BY <1>3, <1>4

\* A sequence with another one that has the platforms it lacks of some.
LEMMA OpenedGrows ==
    ASSUME NEW s \in Seq(Platforms), IsInjective(s), NEW P \in SUBSET Platforms,
           NEW more \in InDataOrder({p \in P : ~Contains(s, p)})
    PROVE  /\ s \o more \in Seq(Platforms) /\ IsInjective(s \o more)
           /\ Len(s) <= Len(s \o more)
           /\ \A i \in 1 .. Len(s) : (s \o more)[i] = s[i]
           /\ \A p \in Platforms : Contains(s \o more, p) <=> Contains(s, p) \/ p \in P
<1> DEFINE S == {p \in P : ~Contains(s, p)}
<1>a. more \in SeqOf(S, Len(Data))
  BY DEF InDataOrder
<1>b. Len(Data) \in Nat
  BY LiveSyncAssumption
<1>1. PICK n \in Nat : more \in [1 .. n -> S]
  BY <1>a, <1>b DEF SeqOf
<1>2. more \in [1 .. n -> Platforms]
  BY <1>1
<1>3. more \in Seq(Platforms) /\ Len(more) = n
  BY <1>2, SeqDef
<1>4. /\ \A p \in S : \E i \in 1 .. n : more[i] = p
      /\ \A i, j \in 1 .. n : i < j => \E k, l \in DOMAIN Data : k < l /\ Data[k] = more[i] /\ Data[l] = more[j]
  BY <1>1 DEF InDataOrder, ToSet
<1>5. \A i, j \in 1 .. n : i < j => more[i] # more[j]
  BY <1>4, LiveSyncAssumption DEF IsInjective
<1>6. \A i, j \in 1 .. n : more[i] = more[j] => i = j
  BY <1>5
<1>7. \A i \in 1 .. n : more[i] \in P /\ \A j \in 1 .. Len(s) : s[j] # more[i]
  BY <1>1 DEF Contains
<1> DEFINE t == s \o more
<1>c. /\ t \in Seq(Platforms) /\ Len(t) = Len(s) + n
      /\ \A i \in 1 .. Len(s) + n : t[i] = IF i <= Len(s) THEN s[i] ELSE more[i - Len(s)]
  BY <1>3, ConcatProperties
<1>8. /\ t \in Seq(Platforms) /\ Len(t) = Len(s) + n /\ DOMAIN t = 1 .. Len(s) + n
      /\ \A i \in 1 .. Len(s) + n : t[i] = IF i <= Len(s) THEN s[i] ELSE more[i - Len(s)]
  <2> HIDE DEF t
  <2> QED
    BY <1>c
<1>9. Len(s) \in Nat /\ DOMAIN s = 1 .. Len(s)
  OBVIOUS
<1> HIDE DEF t
<1>10. \A i \in 1 .. Len(s) : t[i] = s[i]
  BY <1>8, <1>9
<1>11. IsInjective(t)
  <2> SUFFICES ASSUME NEW i \in DOMAIN t, NEW j \in DOMAIN t, t[i] = t[j] PROVE i = j
    BY DEF IsInjective
  <2>1. CASE i <= Len(s) /\ j <= Len(s)
    BY <2>1, <1>8, <1>9 DEF IsInjective
  <2>2. CASE i > Len(s) /\ j > Len(s)
    <3>1. more[i - Len(s)] = more[j - Len(s)] /\ i - Len(s) \in 1 .. n /\ j - Len(s) \in 1 .. n
      BY <2>2, <1>8, <1>9
    <3> QED
      BY <3>1, <1>6, <1>8, <1>9
  <2>3. CASE i <= Len(s) /\ j > Len(s)
    BY <2>3, <1>7, <1>8, <1>9
  <2>4. CASE i > Len(s) /\ j <= Len(s)
    BY <2>4, <1>7, <1>8, <1>9
  <2> QED
    BY <1>8, <1>9, <2>1, <2>2, <2>3, <2>4
<1>12. ASSUME NEW p \in Platforms PROVE Contains(t, p) <=> Contains(s, p) \/ p \in P
  <2>1. ASSUME Contains(s, p) PROVE Contains(t, p)
    BY <2>1, <1>8, <1>9, <1>10 DEF Contains
  <2>2. ASSUME p \in P, ~Contains(s, p) PROVE Contains(t, p)
    <3>1. PICK i \in 1 .. n : more[i] = p
      BY <1>4, <2>2
    <3>2. i + Len(s) \in 1 .. Len(s) + n /\ t[i + Len(s)] = p
      BY <3>1, <1>8, <1>9
    <3> QED
      BY <3>2, <1>8 DEF Contains
  <2>3. ASSUME Contains(t, p) PROVE Contains(s, p) \/ p \in P
    <3>1. PICK i \in 1 .. Len(s) + n : t[i] = p
      BY <2>3, <1>8 DEF Contains
    <3>2. CASE i <= Len(s)
      BY <3>1, <3>2, <1>8, <1>9 DEF Contains
    <3>3. CASE i > Len(s)
      BY <3>1, <3>3, <1>7, <1>8, <1>9
    <3> QED
      BY <3>2, <3>3, <1>9
  <2> QED
    BY <2>1, <2>2, <2>3
<1> QED
  BY <1>8, <1>9, <1>10, <1>11, <1>12 DEF t

-----------------------------------------------------------------------------
(* Types *)

\* The parts of TypeOK: the environment and the devices, the queue, the action
\* that runs, the batches.
WorldOK ==
    /\ disk \in [Files -> Contents \cup {Missing}]
    /\ edits \in 0 .. MaxEdits /\ failures \in 0 .. MaxFailures
    /\ fileHashes \in [Files -> Contents \cup {Missing, Unknown}]
    /\ device \in [Platforms -> [Files -> Contents \cup {Missing}]]
    /\ told \in [Platforms -> SUBSET Files]
    /\ ahead \in [Platforms -> SUBSET Files]

QueueOK == actions \in Seq(Queued)

NowOK ==
    \/ now = Idle
    \/ \E e \in Events, f \in Files : now = Hashing(e, f)
    \/ \E f \in Files, i \in DOMAIN Data : now = Removing(f, i) /\ f \in Takes[Data[i]]
    \/ \E i \in DOMAIN opened : \E sent \in SUBSET batch[opened[i]] : now = Sending(i, sent)

BatchesOK ==
    /\ batch \in [Platforms -> SUBSET Files]
    /\ \A p \in Platforms : batch[p] \subseteq Takes[p]
    /\ opened \in Seq(Platforms) /\ IsInjective(opened)
    /\ \A p \in Platforms : batch[p] # {} => Contains(opened, p)

TimersOK ==
    /\ timer \in [Platforms -> BOOLEAN] /\ dones \in Nat
    /\ aborted \in [Platforms -> BOOLEAN]

LEMMA TypeParts == TypeOK <=> WorldOK /\ QueueOK /\ NowOK /\ BatchesOK /\ TimersOK
BY DEF TypeOK, WorldOK, QueueOK, NowOK, BatchesOK, TimersOK

\* What runs, by its kind.
LEMMA NowFields ==
    ASSUME NowOK
    PROVE  /\ now.do \in {"idle", "hash", "remove", "send"}
           /\ now.do = "idle" => now = Idle
           /\ now.do = "hash" => now.event \in Events /\ now.file \in Files
           /\ now.do = "remove" => /\ now.file \in Files /\ now.place \in DOMAIN Data
                                   /\ now.file \in Takes[Data[now.place]]
           /\ now.do = "send" => /\ now.place \in DOMAIN opened /\ now.sent \subseteq batch[opened[now.place]]
                                 /\ now = Sending(now.place, now.sent)
BY DEF NowOK, Idle, Hashing, Removing, Sending

\* The queue after its end grew, and after its head was taken.
LEMMA QueueGrows ==
    ASSUME QueueOK, NEW a \in Queued, Dispatch(a)
    PROVE  /\ QueueOK' /\ Len(actions) \in Nat
           /\ Len(actions') = Len(actions) + 1
           /\ DOMAIN actions = 1 .. Len(actions) /\ DOMAIN actions' = 1 .. Len(actions')
           /\ \A i \in 1 .. Len(actions) : actions'[i] = actions[i]
           /\ actions'[Len(actions) + 1] = a
BY AppendProperties DEF QueueOK, Dispatch

LEMMA QueueShrinks ==
    ASSUME QueueOK, NEW a, Dequeue(a)
    PROVE  /\ QueueOK' /\ Len(actions) \in Nat \ {0}
           /\ a \in Queued /\ actions[1] = a
           /\ Len(actions') = Len(actions) - 1
           /\ DOMAIN actions = 1 .. Len(actions) /\ DOMAIN actions' = 1 .. Len(actions')
           /\ \A i \in 1 .. Len(actions) - 1 : actions'[i] = actions[i + 1]
<1>1. actions \in Seq(Queued) /\ actions # <<>> /\ Head(actions) = a /\ actions' = Tail(actions)
  BY DEF QueueOK, Dequeue
<1>2. Tail(actions) \in Seq(Queued) /\ Len(Tail(actions)) = Len(actions) - 1 /\ a \in Queued
  BY <1>1, HeadTailProperties
<1>3. \A i \in 1 .. Len(Tail(actions)) : Tail(actions)[i] = actions[i + 1]
  BY <1>1, HeadTailProperties
<1> QED
  BY <1>1, <1>2, <1>3 DEF QueueOK

\* The batches after a file was added to those of its platforms.
LEMMA BatchesGrow ==
    ASSUME BatchesOK, TimersOK, NEW f \in Files, AddToBatches(f)
    PROVE  /\ BatchesOK' /\ TimersOK'
           /\ batch' = [p \in Platforms |-> batch[p] \cup ({f} \cap Takes[p])]
           /\ \A p \in Platforms : /\ timer'[p] = (f \in Takes[p] \/ timer[p])
                                   /\ aborted'[p] = (f \notin Takes[p] /\ aborted[p])
           /\ dones' = dones
<1> DEFINE takers == {p \in Platforms : f \in Takes[p]}
<1>1. PICK more \in InDataOrder({p \in takers : ~Contains(opened, p)}) : opened' = opened \o more
  BY DEF AddToBatches
<1>2. takers \in SUBSET Platforms /\ opened \in Seq(Platforms) /\ IsInjective(opened)
  BY DEF BatchesOK
<1>3. /\ opened' \in Seq(Platforms) /\ IsInjective(opened')
      /\ \A p \in Platforms : Contains(opened', p) <=> Contains(opened, p) \/ p \in takers
  BY <1>1, <1>2, OpenedGrows
<1>4. batch' = [p \in Platforms |-> batch[p] \cup ({f} \cap Takes[p])]
  BY DEF AddToBatches
<1>5. batch' \in [Platforms -> SUBSET Files] /\ \A p \in Platforms : batch'[p] \subseteq Takes[p]
  BY <1>4 DEF BatchesOK
<1>6. \A p \in Platforms : batch'[p] # {} => Contains(opened', p)
  BY <1>3, <1>4 DEF BatchesOK
<1>7. BatchesOK'
  BY <1>3, <1>5, <1>6 DEF BatchesOK
<1>8. TimersOK'
  BY DEF AddToBatches, TimersOK
<1> QED
  BY <1>4, <1>7, <1>8 DEF AddToBatches

\* How a handler ends: nothing is new, the batches have the file, or it is to
\* be removed from the first platform that takes it.
LEMMA HandleEnds ==
    ASSUME BatchesOK, TimersOK, NEW event \in Events, NEW f \in Files, NEW hash, Handle(event, f, hash)
    PROVE  \/ hash = fileHashes[f] /\ now' = Idle /\ UNCHANGED <<fileHashes, batches>>
           \/ /\ event # "deleted" /\ now' = Idle
              /\ fileHashes' = [fileHashes EXCEPT ![f] = hash]
              /\ AddToBatches(f)
           \/ /\ event = "deleted"
              /\ fileHashes' = [fileHashes EXCEPT ![f] = Unknown]
              /\ \E i \in DOMAIN Data :
                    /\ now' = Removing(f, i) /\ f \in Takes[Data[i]]
                    /\ \A j \in 1 .. i - 1 : f \notin Takes[Data[j]]
              /\ UNCHANGED batches
<1> DEFINE i == NextTaker(f, 1)
<1>1. Data \in Seq(Platforms) /\ Len(Data) \in Nat /\ DOMAIN Data = 1 .. Len(Data)
  BY LiveSyncAssumption
<1>2. PICK k \in 1 .. Len(Data) : f \in Takes[Data[k]]
  BY <1>1, LiveSyncAssumption
<1>3. i \in 1 .. Len(Data) /\ f \in Takes[Data[i]] /\ \A j \in 1 .. i - 1 : f \notin Takes[Data[j]]
  <2>1. \/ i = 0 /\ \A j \in 1 .. Len(Data) : f \notin Takes[Data[j]]
        \/ /\ i \in 1 .. Len(Data) /\ f \in Takes[Data[i]]
           /\ \A j \in 1 .. i - 1 : f \notin Takes[Data[j]]
    BY NextTakerIsNext
  <2> HIDE DEF i
  <2> QED
    BY <1>2, <2>1
<1> HIDE DEF i
<1>4. now' = Removing(f, NextTaker(f, 1)) => now' = Removing(f, i)
  BY DEF i
<1> QED
  BY <1>1, <1>3, <1>4 DEF Handle

\* The file that was removed from a platform is to be removed from the next one
\* that takes it, or there is none.
LEMMA RemoveFileEnds ==
    ASSUME NowOK, RemoveFile
    PROVE  \/ now' = Idle /\ \A j \in now.place + 1 .. Len(Data) : now.file \notin Takes[Data[j]]
           \/ \E i \in now.place + 1 .. Len(Data) :
                 /\ i \in DOMAIN Data
                 /\ now' = Removing(now.file, i) /\ now.file \in Takes[Data[i]]
                 /\ \A j \in now.place + 1 .. i - 1 : now.file \notin Takes[Data[j]]
<1> DEFINE f == now.file
           from == now.place + 1
           i == NextTaker(f, from)
<1>1. Len(Data) \in Nat /\ DOMAIN Data = 1 .. Len(Data)
  BY LiveSyncAssumption
<1>2. f \in Files /\ now.place \in 1 .. Len(Data) /\ from \in Nat \ {0}
  BY <1>1, NowFields DEF RemoveFile
<1>3. now' = IF i = 0 THEN Idle ELSE Removing(f, i)
  BY DEF RemoveFile
<1> HIDE DEF f, from
<1>4. \/ i = 0 /\ \A j \in from .. Len(Data) : f \notin Takes[Data[j]]
      \/ /\ i \in from .. Len(Data) /\ f \in Takes[Data[i]]
         /\ \A j \in from .. i - 1 : f \notin Takes[Data[j]]
  BY <1>2, NextTakerIsNext
<1> HIDE DEF i
<1>5. \/ now' = Idle /\ \A j \in from .. Len(Data) : f \notin Takes[Data[j]]
      \/ \E k \in from .. Len(Data) :
            /\ k \in DOMAIN Data
            /\ now' = Removing(f, k) /\ f \in Takes[Data[k]]
            /\ \A j \in from .. k - 1 : f \notin Takes[Data[j]]
  BY <1>1, <1>2, <1>3, <1>4
<1> QED
  BY <1>5 DEF f, from

\* Every step keeps the types.
LEMMA TypeStep ==
    ASSUME TypeOK, [Next]_vars PROVE TypeOK'
<1> USE LiveSyncAssumption
<1>a. WorldOK /\ QueueOK /\ NowOK /\ BatchesOK /\ TimersOK
  BY TypeParts
<1>b. WorldOK' /\ QueueOK' /\ NowOK' /\ BatchesOK' /\ TimersOK' => TypeOK'
  BY TypeParts, PTL
<1>c. Len(Data) \in Nat /\ DOMAIN Data = 1 .. Len(Data) /\ \A i \in DOMAIN Data : Data[i] \in Platforms
  OBVIOUS
<1>d. \A e \in Events, f \in Files : Event(e, f) \in Queued
  BY DEF Queued
<1>e. UNCHANGED <<now, batch, opened>> => NowOK'
  BY <1>a DEF NowOK
<1>f. UNCHANGED batches => BatchesOK' /\ TimersOK'
  BY <1>a DEF BatchesOK, TimersOK, batches
<1>g. now' = Idle => NowOK'
  BY DEF NowOK
<1>h. /\ opened \in Seq(Platforms) /\ Len(opened) \in Nat /\ DOMAIN opened = 1 .. Len(opened)
      /\ \A i \in DOMAIN opened : opened[i] \in Platforms
  BY <1>a DEF BatchesOK
<1>i. ASSUME NEW event \in Events, NEW f \in Files, NEW hash \in Contents \cup {Missing}, Handle(event, f, hash)
      PROVE  /\ fileHashes' \in [Files -> Contents \cup {Missing, Unknown}]
             /\ NowOK' /\ BatchesOK' /\ TimersOK'
  <2>1. CASE hash = fileHashes[f] /\ now' = Idle /\ UNCHANGED <<fileHashes, batches>>
    BY <1>a, <1>f, <1>g, <2>1 DEF WorldOK
  <2>2. CASE now' = Idle /\ fileHashes' = [fileHashes EXCEPT ![f] = hash] /\ AddToBatches(f)
    <3>1. BatchesOK' /\ TimersOK'
      BY <1>a, <2>2, BatchesGrow
    <3> QED
      BY <1>a, <1>g, <2>2, <3>1 DEF WorldOK
  <2>3. CASE /\ fileHashes' = [fileHashes EXCEPT ![f] = Unknown]
             /\ \E i \in DOMAIN Data : now' = Removing(f, i) /\ f \in Takes[Data[i]]
             /\ UNCHANGED batches
    <3>1. NowOK'
      BY <2>3 DEF NowOK
    <3> QED
      BY <1>a, <1>f, <2>3, <3>1 DEF WorldOK
  <2> QED
    BY <1>a, <1>i, <2>1, <2>2, <2>3, HandleEnds
<1>1. ASSUME NEW f \in Files, Edit(f) PROVE TypeOK'
  <2>1. PICK c \in Contents \cup {Missing} :
           /\ disk' = [disk EXCEPT ![f] = c]
           /\ Dispatch(Event(IF c = Missing THEN "deleted"
                             ELSE IF disk[f] = Missing THEN "added" ELSE "changed", f))
    BY <1>1 DEF Edit
  <2>2. QueueOK'
    BY <1>a, <1>d, <2>1, QueueGrows DEF Events
  <2>3. WorldOK'
    BY <1>a, <1>1, <2>1 DEF WorldOK, Edit, devices
  <2>4. NowOK' /\ BatchesOK' /\ TimersOK'
    BY <1>1, <1>e, <1>f DEF Edit, batches
  <2> QED
    BY <1>b, <2>2, <2>3, <2>4
<1>2. ASSUME NEW p \in Platforms, BatchTimer(p) PROVE TypeOK'
  <2>1. WorldOK' /\ QueueOK'
    BY <1>a, <1>2 DEF WorldOK, QueueOK, BatchTimer, files, devices
  <2>2. BatchesOK' /\ NowOK'
    BY <1>a, <1>2, <1>e DEF BatchesOK, BatchTimer
  <2>3. TimersOK'
    BY <1>a, <1>2 DEF TimersOK, BatchTimer
  <2> QED
    BY <1>b, <2>1, <2>2, <2>3
<1>3. CASE Done
  <2>1. QueueOK'
    BY <1>3, <1>a, QueueGrows DEF Done, Queued
  <2>2. WorldOK' /\ BatchesOK'
    BY <1>a, <1>3 DEF WorldOK, BatchesOK, Done, files, devices
  <2>3. NowOK' /\ TimersOK'
    BY <1>a, <1>3, <1>e DEF TimersOK, Done
  <2> QED
    BY <1>b, <2>1, <2>2, <2>3
<1>4. ASSUME NEW event \in Events, NEW f \in Files, StartEvent(event, f) PROVE TypeOK'
  <2>1. QueueOK'
    BY <1>a, <1>4, QueueShrinks DEF StartEvent
  <2>2. /\ fileHashes' \in [Files -> Contents \cup {Missing, Unknown}]
        /\ NowOK' /\ BatchesOK' /\ TimersOK'
    <3>1. CASE Handle(event, f, Missing)
      BY <1>i, <3>1
    <3>2. CASE now' = Hashing(event, f) /\ UNCHANGED <<fileHashes, batches>>
      BY <1>a, <1>f, <3>2 DEF NowOK, WorldOK
    <3> QED
      BY <1>4, <3>1, <3>2 DEF StartEvent
  <2>3. WorldOK'
    BY <1>a, <1>4, <2>2 DEF WorldOK, StartEvent, files, devices
  <2> QED
    BY <1>b, <2>1, <2>2, <2>3
<1>5. CASE Hashed
  <2>1. now.file \in Files /\ now.event \in Events /\ disk[now.file] \in Contents \cup {Missing}
    BY <1>a, <1>5, NowFields DEF Hashed, WorldOK
  <2>2. /\ fileHashes' \in [Files -> Contents \cup {Missing, Unknown}]
        /\ NowOK' /\ BatchesOK' /\ TimersOK'
    <3>1. CASE now' = Idle /\ UNCHANGED <<fileHashes, batches>>
      BY <1>a, <1>f, <1>g, <3>1 DEF WorldOK
    <3>2. CASE Handle(now.event, now.file, disk[now.file])
      BY <1>i, <2>1, <3>2
    <3> QED
      BY <1>5, <3>1, <3>2 DEF Hashed
  <2>3. WorldOK' /\ QueueOK'
    BY <1>a, <1>5, <2>2 DEF WorldOK, QueueOK, Hashed, files, devices
  <2> QED
    BY <1>b, <2>2, <2>3
<1>6. CASE RemoveFile
  <2>1. now.file \in Files /\ Data[now.place] \in Platforms
    BY <1>a, <1>c, <1>6, NowFields DEF RemoveFile
  <2>2. NowOK'
    BY <1>a, <1>6, RemoveFileEnds, <2>1 DEF NowOK
  <2>3. WorldOK' /\ QueueOK'
    BY <1>a, <1>6, <2>1 DEF WorldOK, QueueOK, RemoveFile, files
  <2> QED
    BY <1>b, <1>6, <1>f, <2>2, <2>3 DEF RemoveFile
<1>7. CASE RemoveFails
  <2>1. now.file \in Files
    BY <1>a, <1>7, NowFields DEF RemoveFails
  <2>2. WorldOK' /\ QueueOK'
    BY <1>a, <1>7, <2>1 DEF WorldOK, QueueOK, RemoveFails, files
  <2> QED
    BY <1>b, <1>7, <1>f, <1>g, <2>2 DEF RemoveFails
<1>8. CASE StartSync
  <2>1. QueueOK'
    BY <1>a, <1>8, QueueShrinks DEF StartSync
  <2>2. WorldOK' /\ BatchesOK' /\ TimersOK'
    BY <1>a, <1>f, <1>8 DEF WorldOK, StartSync, files, devices
  <2>3. UNCHANGED <<opened, batch>>
    BY <1>8 DEF StartSync, batches
  <2>4. now' = Idle \/ \E i \in DOMAIN opened : now' = Sending(i, {})
    BY <1>8, <1>h, NextBatchIsNext DEF StartSync
  <2>5. NowOK'
    BY <2>3, <2>4 DEF NowOK
  <2> QED
    BY <1>b, <2>1, <2>2, <2>5
<1>9. ASSUME NEW f \in Files, SendFile(f) PROVE TypeOK'
  <2>1. /\ now.place \in DOMAIN opened /\ now.sent \subseteq batch[opened[now.place]]
        /\ now = Sending(now.place, now.sent)
    BY <1>a, <1>9, NowFields DEF SendFile
  <2>2. now' = Sending(now.place, now.sent \cup {f}) /\ f \in batch[opened[now.place]] /\ UNCHANGED <<batch, opened>>
    BY <1>9, <2>1 DEF SendFile, Sending, batches
  <2>3. NowOK'
    BY <2>1, <2>2 DEF NowOK
  <2>4. disk[f] \in Contents \cup {Missing} /\ opened[now.place] \in Platforms
    BY <1>a, <1>h, <2>1 DEF WorldOK
  <2>5. WorldOK' /\ QueueOK'
    BY <1>a, <1>9, <2>4 DEF WorldOK, QueueOK, SendFile, files
  <2> QED
    BY <1>b, <1>9, <1>f, <2>3, <2>5 DEF SendFile
<1>10. CASE SendFails
  <2>1. WorldOK' /\ QueueOK'
    BY <1>a, <1>10 DEF WorldOK, QueueOK, SendFails, files, devices
  <2>2. BatchesOK' /\ TimersOK'
    BY <1>a, <1>10 DEF BatchesOK, TimersOK, SendFails
  <2> QED
    BY <1>b, <1>10, <1>g, <2>1, <2>2 DEF SendFails
<1>11. CASE Reset
  <2>1. now.place \in DOMAIN opened /\ opened[now.place] \in Platforms
    BY <1>a, <1>h, <1>11, NowFields DEF Reset
  <2>2. WorldOK' /\ QueueOK'
    BY <1>a, <1>11 DEF WorldOK, QueueOK, Reset, files, devices
  <2>3. BatchesOK' /\ TimersOK'
    BY <1>a, <1>11, <2>1 DEF BatchesOK, TimersOK, Reset
  <2>4. now' = Idle \/ \E i \in DOMAIN opened : now' = Sending(i, {})
    <3>1. now.place + 1 \in Nat \ {0} /\ now' = NextBatch(now.place + 1)
      BY <1>h, <1>11, <2>1 DEF Reset
    <3>2. \/ NextBatch(now.place + 1) = Idle
          \/ \E i \in now.place + 1 .. Len(opened) : NextBatch(now.place + 1) = Sending(i, {})
      BY <1>h, <3>1, NextBatchIsNext
    <3>3. now.place + 1 .. Len(opened) \subseteq DOMAIN opened
      BY <1>h, <2>1
    <3> QED
      BY <3>1, <3>2, <3>3
  <2>5. NowOK'
    BY <1>11, <2>4 DEF NowOK, Reset
  <2> QED
    BY <1>b, <2>2, <2>3, <2>5
<1>12. CASE UNCHANGED vars
  <2>1. WorldOK' /\ QueueOK'
    BY <1>a, <1>12 DEF WorldOK, QueueOK, vars, files, devices
  <2>2. NowOK' /\ BatchesOK' /\ TimersOK'
    BY <1>12, <1>e, <1>f DEF vars, batches
  <2> QED
    BY <1>b, <2>1, <2>2
<1> QED
  BY <1>1, <1>2, <1>3, <1>4, <1>5, <1>6, <1>7, <1>8, <1>9, <1>10, <1>11, <1>12
  DEF Next, Dispatcher, Quiet

-----------------------------------------------------------------------------
(* What the hashes know *)

\* A report that a file was deleted waits: it is not there, or it came back
\* since, and the report of that waits behind.
DeletionsFollowDisk ==
    \A i \in DOMAIN actions, f \in Files :
        actions[i] = Event("deleted", f) =>
            \/ disk[f] = Missing
            \/ \E j \in DOMAIN actions : i < j /\ actions[j].do = "event" /\ actions[j].file = f

\* What is read, or removed from devices, is not there otherwise on disk, or a
\* report of that waits.  Of a file that is removed no hash is recorded.
NowFollowsDisk ==
    /\ now.do = "hash" => \/ QueuedEvent(now.file)
                          \/ disk[now.file] # Missing /\ now.event # "deleted"
    /\ now.do = "remove" => /\ fileHashes[now.file] = Unknown
                            /\ disk[now.file] = Missing \/ QueuedEvent(now.file)

DiskInv == HashesFollowDisk /\ DeletionsFollowDisk /\ NowFollowsDisk

\* The reports that wait after another action was put in the queue, and after
\* the head of the queue was taken.
LEMMA ReportsGrow ==
    ASSUME QueueOK, NEW a \in Queued, Dispatch(a), NEW f
    PROVE  QueuedEvent(f)' <=> QueuedEvent(f) \/ (a.do = "event" /\ a.file = f)
<1>1. /\ Len(actions) \in Nat /\ Len(actions') = Len(actions) + 1
      /\ DOMAIN actions = 1 .. Len(actions) /\ DOMAIN actions' = 1 .. Len(actions')
      /\ \A i \in 1 .. Len(actions) : actions'[i] = actions[i]
      /\ actions'[Len(actions) + 1] = a
  BY QueueGrows
<1>2. QueuedEvent(f) => QueuedEvent(f)'
  BY <1>1 DEF QueuedEvent
<1>3. a.do = "event" /\ a.file = f => QueuedEvent(f)'
  BY <1>1 DEF QueuedEvent
<1>4. QueuedEvent(f)' => QueuedEvent(f) \/ (a.do = "event" /\ a.file = f)
  BY <1>1 DEF QueuedEvent
<1> QED
  BY <1>2, <1>3, <1>4

LEMMA ReportsShrink ==
    ASSUME QueueOK, NEW a, Dequeue(a), NEW f, ~ (a.do = "event" /\ a.file = f)
    PROVE  QueuedEvent(f) => QueuedEvent(f)'
<1>1. /\ Len(actions) \in Nat \ {0} /\ actions[1] = a
      /\ Len(actions') = Len(actions) - 1
      /\ DOMAIN actions = 1 .. Len(actions) /\ DOMAIN actions' = 1 .. Len(actions')
      /\ \A i \in 1 .. Len(actions) - 1 : actions'[i] = actions[i + 1]
  BY QueueShrinks
<1>2. ASSUME NEW i \in DOMAIN actions, actions[i].do = "event", actions[i].file = f
      PROVE  i - 1 \in DOMAIN actions' /\ actions'[i - 1] = actions[i]
  BY <1>1, <1>2
<1> QED
  BY <1>2 DEF QueuedEvent

\* A deletion that waits, after the head of the queue was taken.
LEMMA DeletionsShrink ==
    ASSUME QueueOK, DeletionsFollowDisk, NEW a, Dequeue(a), UNCHANGED disk
    PROVE  /\ DeletionsFollowDisk'
           /\ \A f \in Files : a = Event("deleted", f) => disk[f] = Missing \/ QueuedEvent(f)'
<1>1. /\ Len(actions) \in Nat \ {0} /\ actions[1] = a
      /\ Len(actions') = Len(actions) - 1
      /\ DOMAIN actions = 1 .. Len(actions) /\ DOMAIN actions' = 1 .. Len(actions')
      /\ \A i \in 1 .. Len(actions) - 1 : actions'[i] = actions[i + 1]
  BY QueueShrinks
<1>2. ASSUME NEW i \in DOMAIN actions, NEW f \in Files, actions[i] = Event("deleted", f), disk[f] # Missing
      PROVE  \E j \in DOMAIN actions' : i < j + 1 /\ actions'[j].do = "event" /\ actions'[j].file = f
  <2>1. PICK j \in DOMAIN actions : i < j /\ actions[j].do = "event" /\ actions[j].file = f
    BY <1>2 DEF DeletionsFollowDisk
  <2>2. j - 1 \in DOMAIN actions' /\ i < (j - 1) + 1 /\ actions'[j - 1] = actions[j]
    BY <1>1, <2>1
  <2> QED
    BY <2>1, <2>2
<1>3. ASSUME NEW i \in DOMAIN actions', NEW f \in Files, actions'[i] = Event("deleted", f), disk'[f] # Missing
      PROVE  \E j \in DOMAIN actions' : i < j /\ actions'[j].do = "event" /\ actions'[j].file = f
  <2>1. i + 1 \in DOMAIN actions /\ actions[i + 1] = Event("deleted", f) /\ disk[f] # Missing
    BY <1>1, <1>3
  <2>2. PICK j \in DOMAIN actions' : i + 1 < j + 1 /\ actions'[j].do = "event" /\ actions'[j].file = f
    BY <1>2, <2>1
  <2> QED
    BY <1>1, <2>2
<1>4. DeletionsFollowDisk'
  BY <1>3 DEF DeletionsFollowDisk, Event
<1>5. ASSUME NEW f \in Files, a = Event("deleted", f), disk[f] # Missing PROVE QueuedEvent(f)'
  BY <1>1, <1>2, <1>5 DEF QueuedEvent
<1> QED
  BY <1>4, <1>5

\* A handler that ends with the hash of what is on disk.
LEMMA HandleFollowsDisk ==
    ASSUME TypeOK, HashesFollowDisk,
           NEW event \in Events, NEW f \in Files, Handle(event, f, disk[f]), UNCHANGED disk,
           \A g \in Files \ {f} : Reported(g) => QueuedEvent(g)',
           event = "deleted" => disk[f] = Missing \/ QueuedEvent(f)'
    PROVE  HashesFollowDisk' /\ NowFollowsDisk'
<1>a. WorldOK /\ BatchesOK /\ TimersOK
  BY TypeParts
<1>1. fileHashes'[f] \in {disk[f], Unknown} /\ \A g \in Files \ {f} : fileHashes'[g] = fileHashes[g]
  BY <1>a, HandleEnds DEF WorldOK
<1>2. HashesFollowDisk'
  <2> SUFFICES ASSUME NEW g \in Files PROVE fileHashes'[g] \in {disk'[g], Unknown} \/ QueuedEvent(g)'
    BY DEF HashesFollowDisk, Reported
  <2> QED
    BY <1>1 DEF HashesFollowDisk
<1>3. NowFollowsDisk'
  <2>1. CASE now' = Idle
    BY <2>1 DEF NowFollowsDisk, Idle
  <2>2. ASSUME NEW i, now' = Removing(f, i), event = "deleted", fileHashes'[f] = Unknown PROVE NowFollowsDisk'
    BY <2>2 DEF NowFollowsDisk, Removing
  <2> QED
    BY <1>a, <2>1, <2>2, HandleEnds DEF WorldOK
<1> QED
  BY <1>2, <1>3

\* Every step keeps what the hashes know.
LEMMA DiskStep ==
    ASSUME TypeOK, DiskInv, [Next]_vars PROVE DiskInv'
<1>a. WorldOK /\ QueueOK /\ NowOK /\ BatchesOK /\ TimersOK
  BY TypeParts
<1>b. UNCHANGED <<disk, actions>> => DeletionsFollowDisk'
  BY DEF DiskInv, DeletionsFollowDisk
<1>c. \A f \in Files : UNCHANGED actions => (QueuedEvent(f)' <=> QueuedEvent(f))
  BY DEF QueuedEvent
<1>d. ASSUME UNCHANGED <<disk, fileHashes>>, now.do # "hash", \A f \in Files : QueuedEvent(f) => QueuedEvent(f)'
      PROVE  HashesFollowDisk'
  BY <1>d DEF DiskInv, HashesFollowDisk, Reported
<1>e. now' = Idle => NowFollowsDisk'
  BY DEF NowFollowsDisk, Idle
<1>f. ASSUME UNCHANGED <<disk, fileHashes, now>>, \A f \in Files : QueuedEvent(f) => QueuedEvent(f)'
      PROVE  HashesFollowDisk' /\ NowFollowsDisk'
  <2>1. HashesFollowDisk'
    BY <1>f DEF DiskInv, HashesFollowDisk, Reported
  <2>2. NowFollowsDisk'
    BY <1>a, <1>f, NowFields DEF DiskInv, NowFollowsDisk
  <2> QED
    BY <2>1, <2>2
<1>g. \A e \in Events, f \in Files :
         Event(e, f) \in Queued /\ Event(e, f).do = "event" /\ Event(e, f).file = f /\ Event(e, f).event = e
  BY DEF Queued, Event
<1>h. Sync \in Queued /\ Sync.do # "event"
  BY DEF Queued, Sync
<1>1. ASSUME NEW f \in Files, Edit(f) PROVE DiskInv'
  <2>1. PICK c \in Contents \cup {Missing} :
           /\ disk' = [disk EXCEPT ![f] = c]
           /\ Dispatch(Event(IF c = Missing THEN "deleted"
                             ELSE IF disk[f] = Missing THEN "added" ELSE "changed", f))
    BY <1>1 DEF Edit
  <2> DEFINE e == IF c = Missing THEN "deleted" ELSE IF disk[f] = Missing THEN "added" ELSE "changed"
  <2>2. e \in Events /\ (e = "deleted" => c = Missing) /\ Dispatch(Event(e, f))
    BY <2>1 DEF Events
  <2> HIDE DEF e
  <2>3. disk'[f] = c /\ \A g \in Files \ {f} : disk'[g] = disk[g]
    BY <1>a, <2>1 DEF WorldOK
  <2>4. QueuedEvent(f)' /\ \A g \in Files : QueuedEvent(g) => QueuedEvent(g)'
    BY <1>a, <1>g, <2>2, ReportsGrow
  <2>5. /\ Len(actions) \in Nat /\ Len(actions') = Len(actions) + 1
        /\ DOMAIN actions = 1 .. Len(actions) /\ DOMAIN actions' = 1 .. Len(actions')
        /\ \A i \in 1 .. Len(actions) : actions'[i] = actions[i]
        /\ actions'[Len(actions) + 1] = Event(e, f)
    BY <1>a, <1>g, <2>2, QueueGrows
  <2>6. DeletionsFollowDisk'
    <3> SUFFICES ASSUME NEW i \in DOMAIN actions', NEW g \in Files, actions'[i] = Event("deleted", g), disk'[g] # Missing
                 PROVE  \E j \in DOMAIN actions' : i < j /\ actions'[j].do = "event" /\ actions'[j].file = g
      BY DEF DeletionsFollowDisk, Event
    <3>1. CASE i = Len(actions) + 1
      <4>1. Event(e, f).event = "deleted" /\ Event(e, f).file = g
        BY <2>5, <3>1, <1>g DEF Events
      <4> QED
        BY <1>g, <2>2, <2>3, <4>1
    <3>2. CASE i \in 1 .. Len(actions) /\ g = f
      BY <1>g, <2>2, <2>5, <3>2
    <3>3. CASE i \in 1 .. Len(actions) /\ g # f
      <4>1. PICK j \in DOMAIN actions : i < j /\ actions[j].do = "event" /\ actions[j].file = g
        BY <2>3, <2>5, <3>3 DEF DiskInv, DeletionsFollowDisk
      <4> QED
        BY <2>5, <4>1
    <3> QED
      BY <2>5, <3>1, <3>2, <3>3
  <2>7. UNCHANGED <<fileHashes, now>>
    BY <1>1 DEF Edit
  <2>8. HashesFollowDisk'
    <3> SUFFICES ASSUME NEW g \in Files PROVE fileHashes'[g] \in {disk'[g], Unknown} \/ Reported(g)'
      BY DEF HashesFollowDisk
    <3>1. Reported(g) => Reported(g)'
      BY <2>4, <2>7 DEF Reported
    <3>2. CASE g = f
      BY <2>4, <3>2 DEF Reported
    <3>3. CASE g # f
      BY <2>3, <2>7, <3>1, <3>3 DEF DiskInv, HashesFollowDisk
    <3> QED
      BY <3>2, <3>3
  <2>9. NowFollowsDisk'
    BY <1>a, <2>3, <2>4, <2>7, NowFields DEF DiskInv, NowFollowsDisk
  <2> QED
    BY <2>6, <2>8, <2>9 DEF DiskInv
<1>2. ASSUME NEW p \in Platforms, BatchTimer(p) PROVE DiskInv'
  BY <1>2, <1>b, <1>c, <1>f DEF BatchTimer, files, DiskInv
<1>3. CASE Done
  <2>1. \A f \in Files : QueuedEvent(f) => QueuedEvent(f)'
    BY <1>3, <1>a, <1>h, ReportsGrow DEF Done
  <2>2. UNCHANGED <<disk, fileHashes, now>>
    BY <1>3 DEF Done, files
  <2>3. /\ Len(actions) \in Nat /\ Len(actions') = Len(actions) + 1
        /\ DOMAIN actions = 1 .. Len(actions) /\ DOMAIN actions' = 1 .. Len(actions')
        /\ \A i \in 1 .. Len(actions) : actions'[i] = actions[i]
        /\ actions'[Len(actions) + 1] = Sync
    BY <1>3, <1>a, <1>h, QueueGrows DEF Done
  <2>4. DeletionsFollowDisk'
    <3> SUFFICES ASSUME NEW i \in DOMAIN actions', NEW g \in Files, actions'[i] = Event("deleted", g), disk'[g] # Missing
                 PROVE  \E j \in DOMAIN actions' : i < j /\ actions'[j].do = "event" /\ actions'[j].file = g
      BY DEF DeletionsFollowDisk, Event
    <3>1. i # Len(actions) + 1
      BY <1>g, <1>h, <2>3 DEF Events
    <3>2. PICK j \in DOMAIN actions : i < j /\ actions[j].do = "event" /\ actions[j].file = g
      BY <2>2, <2>3, <3>1 DEF DiskInv, DeletionsFollowDisk
    <3> QED
      BY <2>3, <3>2
  <2> QED
    BY <1>f, <2>1, <2>2, <2>4 DEF DiskInv
<1>4. ASSUME NEW event \in Events, NEW f \in Files, StartEvent(event, f) PROVE DiskInv'
  <2>1. /\ Dequeue(Event(event, f)) /\ UNCHANGED disk /\ now = Idle
        /\ \/ disk[f] = Missing /\ Handle(event, f, disk[f])
           \/ disk[f] # Missing /\ now' = Hashing(event, f) /\ UNCHANGED fileHashes
    BY <1>4 DEF StartEvent, files, Dequeue
  <2>2. DeletionsFollowDisk' /\ (event = "deleted" => disk[f] = Missing \/ QueuedEvent(f)')
    BY <1>a, <2>1, DeletionsShrink DEF DiskInv
  <2>3. \A g \in Files \ {f} : Reported(g) => QueuedEvent(g)'
    BY <1>a, <1>g, <2>1, ReportsShrink DEF Reported, Idle
  <2>4. CASE disk[f] = Missing /\ Handle(event, f, disk[f])
    BY <2>1, <2>2, <2>3, <2>4, HandleFollowsDisk DEF DiskInv
  <2>5. CASE disk[f] # Missing /\ now' = Hashing(event, f) /\ UNCHANGED fileHashes
    <3>1. Reported(f)' /\ \A g \in Files \ {f} : Reported(g) => Reported(g)'
      BY <2>3, <2>5 DEF Reported, Hashing
    <3>2. HashesFollowDisk'
      BY <2>1, <2>5, <3>1 DEF DiskInv, HashesFollowDisk
    <3>3. NowFollowsDisk'
      BY <2>1, <2>2, <2>5 DEF NowFollowsDisk, Hashing
    <3> QED
      BY <2>2, <3>2, <3>3 DEF DiskInv
  <2> QED
    BY <2>1, <2>4, <2>5
<1>5. CASE Hashed
  <2> DEFINE f == now.file
  <2>1. now.do = "hash" /\ f \in Files /\ now.event \in Events /\ UNCHANGED <<disk, actions>>
    BY <1>a, <1>5, NowFields DEF Hashed, files
  <2>2. \A g \in Files : Reported(g) => QueuedEvent(g) \/ g = f
    BY DEF Reported
  <2>3. QueuedEvent(f) \/ (disk[f] # Missing /\ now.event # "deleted")
    BY <2>1 DEF DiskInv, NowFollowsDisk
  <2>4. \/ disk[f] = Missing /\ now' = Idle /\ UNCHANGED fileHashes
        \/ Handle(now.event, f, disk[f])
    BY <1>5 DEF Hashed
  <2>5. PICK g \in Files, event \in Events : g = f /\ event = now.event
    BY <2>1
  <2> HIDE DEF f
  <2>6. CASE disk[g] = Missing /\ now' = Idle /\ UNCHANGED fileHashes
    <3>1. \A h \in Files : Reported(h) => QueuedEvent(h)'
      BY <1>c, <2>1, <2>2, <2>3, <2>5, <2>6
    <3>2. HashesFollowDisk'
      BY <2>1, <2>6, <3>1 DEF DiskInv, HashesFollowDisk, Reported
    <3> QED
      BY <1>b, <1>e, <2>1, <2>6, <3>2 DEF DiskInv
  <2>7. CASE Handle(event, g, disk[g])
    <3>1. \A h \in Files \ {g} : Reported(h) => QueuedEvent(h)'
      BY <1>c, <2>1, <2>2, <2>5
    <3>2. event = "deleted" => QueuedEvent(g)'
      BY <1>c, <2>1, <2>3, <2>5
    <3>3. HashesFollowDisk' /\ NowFollowsDisk'
      BY <2>1, <2>7, <3>1, <3>2, HandleFollowsDisk DEF DiskInv
    <3> QED
      BY <1>b, <2>1, <3>3 DEF DiskInv
  <2> QED
    BY <2>4, <2>5, <2>6, <2>7
<1>6. CASE RemoveFile
  <2>1. now.do = "remove" /\ UNCHANGED <<disk, fileHashes, actions>>
    BY <1>6 DEF RemoveFile, files
  <2>2. HashesFollowDisk'
    BY <1>c, <1>d, <2>1
  <2>3. now' = Idle \/ \E i \in DOMAIN Data : now' = Removing(now.file, i)
    BY <1>a, <1>6, RemoveFileEnds
  <2>4. now.file \in Files
    BY <1>a, <2>1, NowFields
  <2>5. NowFollowsDisk'
    BY <1>c, <2>1, <2>3, <2>4 DEF DiskInv, NowFollowsDisk, Idle, Removing
  <2> QED
    BY <1>b, <2>1, <2>2, <2>5 DEF DiskInv
<1>7. CASE RemoveFails
  BY <1>7, <1>b, <1>c, <1>d, <1>e DEF RemoveFails, files, DiskInv
<1>8. CASE StartSync
  <2>1. Dequeue(Sync) /\ now = Idle /\ UNCHANGED <<disk, fileHashes>>
    BY <1>8 DEF StartSync, files, Dequeue
  <2>2. \A f \in Files : QueuedEvent(f) => QueuedEvent(f)'
    BY <1>a, <1>h, <2>1, ReportsShrink
  <2>3. HashesFollowDisk'
    BY <1>d, <2>1, <2>2 DEF Idle
  <2>4. DeletionsFollowDisk'
    BY <1>a, <2>1, DeletionsShrink DEF DiskInv
  <2>5. NowFollowsDisk'
    BY <1>8 DEF StartSync, NextBatch, NowFollowsDisk, Idle, Sending
  <2> QED
    BY <2>3, <2>4, <2>5 DEF DiskInv
<1>9. ASSUME NEW f \in Files, SendFile(f) PROVE DiskInv'
  <2>1. now.do = "send" /\ UNCHANGED <<disk, fileHashes, actions>>
    BY <1>9 DEF SendFile, files
  <2>2. now'.do = "send"
    BY <1>a, <1>9, NowFields DEF SendFile, Sending
  <2>3. HashesFollowDisk' /\ NowFollowsDisk'
    BY <1>c, <1>d, <2>1, <2>2 DEF NowFollowsDisk
  <2> QED
    BY <1>b, <2>1, <2>3 DEF DiskInv
<1>10. CASE SendFails
  BY <1>10, <1>b, <1>c, <1>d, <1>e DEF SendFails, files, DiskInv
<1>11. CASE Reset
  <2>1. now.do = "send" /\ UNCHANGED <<disk, fileHashes, actions>>
    BY <1>11 DEF Reset, files
  <2>2. HashesFollowDisk'
    BY <1>c, <1>d, <2>1
  <2>3. NowFollowsDisk'
    BY <1>11 DEF Reset, NextBatch, NowFollowsDisk, Idle, Sending
  <2> QED
    BY <1>b, <2>1, <2>2, <2>3 DEF DiskInv
<1>12. CASE UNCHANGED vars
  BY <1>12, <1>b, <1>c, <1>f DEF vars, files, DiskInv
<1> QED
  BY <1>1, <1>2, <1>3, <1>4, <1>5, <1>6, <1>7, <1>8, <1>9, <1>10, <1>11, <1>12
  DEF Next, Dispatcher, Quiet

-----------------------------------------------------------------------------
(* What the devices have *)

\* A hash that is recorded is the one of what the devices have, or it is on
\* its way to them, or something newer was sent ahead of it.
RecordedIsOnTheWay ==
    \A p \in Platforms : \A f \in Takes[p] :
        fileHashes[f] # Unknown => device[p][f] = fileHashes[f] \/ f \in batch[p] \/ f \in ahead[p]

\* So it is for the files of a batch that were sent before it is reset.
SentIsRecorded ==
    now.do = "send" => \A f \in now.sent :
        \/ device[opened[now.place]][f] = fileHashes[f]
        \/ f \in ahead[opened[now.place]]

DevicesInv == RecordedIsOnTheWay /\ SentIsRecorded /\ OutOfDateIsPending

\* The files a platform takes are files.
LEMMA TakenAreFiles == \A p \in Platforms : Takes[p] \subseteq Files
BY LiveSyncAssumption

\* A handler that ends with the hash of what is on disk.
LEMMA HandleReachesDevices ==
    ASSUME TypeOK, DevicesInv,
           NEW event \in Events, NEW f \in Files, Handle(event, f, disk[f]),
           UNCHANGED <<disk, devices>>, ToRemoveFrom = {},
           \A g \in Files \ {f} : Reported(g) => QueuedEvent(g)'
    PROVE  DevicesInv'
<1>a. WorldOK /\ BatchesOK /\ TimersOK
  BY TypeParts
<1>b. UNCHANGED <<device, told, ahead>>
  BY DEF devices
<1>c. \A g \in Files \ {f} : fileHashes'[g] = fileHashes[g]
  BY <1>a, HandleEnds DEF WorldOK
<1>d. \A p \in Platforms : batch[p] \subseteq batch'[p]
  <2>1. CASE AddToBatches(f)
    BY <2>1, <1>a, BatchesGrow
  <2>2. CASE UNCHANGED batches
    BY <2>2 DEF batches
  <2> QED
    BY <1>a, <2>1, <2>2, HandleEnds
<1>e. disk[f] # Unknown
  BY <1>a, LiveSyncAssumption DEF WorldOK
<1>1. ASSUME NEW p \in Platforms, f \in Takes[p]
      PROVE  /\ \/ fileHashes'[f] = Unknown
                \/ device[p][f] = fileHashes'[f] \/ f \in batch'[p] \/ f \in ahead[p]
             /\ \/ device[p][f] = disk[f]
                \/ p \in ToRemoveFrom' /\ now'.file = f
                \/ f \in batch'[p]
                \/ f \in ahead[p]
  <2>1. CASE disk[f] = fileHashes[f] /\ UNCHANGED <<fileHashes, batches>>
    <3>1. device[p][f] = disk[f] \/ f \in batch[p] \/ f \in ahead[p]
      BY <1>1, <1>e, <2>1 DEF DevicesInv, RecordedIsOnTheWay
    <3> QED
      BY <1>1, <2>1, <3>1, <1>d
  <2>2. CASE AddToBatches(f)
    <3>1. batch'[p] = batch[p] \cup ({f} \cap Takes[p])
      BY <1>a, <2>2, BatchesGrow
    <3> QED
      BY <1>1, <3>1
  <2>3. ASSUME fileHashes' = [fileHashes EXCEPT ![f] = Unknown],
               NEW i \in DOMAIN Data, now' = Removing(f, i), \A j \in 1 .. i - 1 : f \notin Takes[Data[j]]
        PROVE  fileHashes'[f] = Unknown /\ p \in ToRemoveFrom' /\ now'.file = f
    <3>1. fileHashes'[f] = Unknown
      BY <1>a, <2>3 DEF WorldOK
    <3>2. now'.do = "remove" /\ now'.file = f /\ now'.place = i
      BY <2>3 DEF Removing
    <3>3. Len(Data) \in Nat /\ DOMAIN Data = 1 .. Len(Data)
      BY LiveSyncAssumption
    <3>4. PICK k \in 1 .. Len(Data) : Data[k] = p
      BY <3>3, LiveSyncAssumption
    <3>5. k \in i .. Len(Data)
      BY <1>1, <2>3, <3>3, <3>4
    <3>6. p \in ToRemoveFrom'
      BY <3>2, <3>4, <3>5 DEF ToRemoveFrom
    <3> QED
      BY <3>1, <3>2, <3>6
  <2> QED
    BY <1>a, <2>1, <2>2, <2>3, HandleEnds
<1>2. RecordedIsOnTheWay'
  <2> SUFFICES ASSUME NEW p \in Platforms, NEW g \in Takes[p], fileHashes'[g] # Unknown
               PROVE  device'[p][g] = fileHashes'[g] \/ g \in batch'[p] \/ g \in ahead'[p]
    BY DEF RecordedIsOnTheWay
  <2>1. CASE g = f
    BY <1>1, <1>b, <2>1
  <2>2. CASE g # f
    BY <1>b, <1>c, <1>d, <2>2, TakenAreFiles DEF DevicesInv, RecordedIsOnTheWay
  <2> QED
    BY <2>1, <2>2
<1>3. SentIsRecorded'
  <2>1. now'.do # "send"
    BY <1>a, HandleEnds DEF Idle, Removing
  <2> QED
    BY <2>1 DEF SentIsRecorded
<1>4. OutOfDateIsPending'
  <2> SUFFICES ASSUME NEW p \in Platforms, NEW g \in Takes[p], device'[p][g] # disk'[g]
               PROVE  \/ Reported(g)'
                      \/ p \in ToRemoveFrom' /\ now'.file = g
                      \/ g \in batch'[p]
                      \/ g \in told'[p]
                      \/ g \in ahead'[p]
    BY DEF OutOfDateIsPending
  <2>1. CASE g = f
    BY <1>1, <1>b, <2>1
  <2>2. CASE g # f
    <3>1. Reported(g) \/ g \in batch[p] \/ g \in told[p] \/ g \in ahead[p]
      BY <1>b DEF DevicesInv, OutOfDateIsPending
    <3>2. Reported(g) => Reported(g)'
      BY <2>2, TakenAreFiles DEF Reported
    <3> QED
      BY <1>b, <1>d, <3>1, <3>2
  <2> QED
    BY <2>1, <2>2
<1> QED
  BY <1>2, <1>3, <1>4 DEF DevicesInv

\* Every step keeps what the devices have, or wait for.
LEMMA DevicesStep ==
    ASSUME TypeOK, DiskInv, DevicesInv, [Next]_vars PROVE DevicesInv'
<1>a. WorldOK /\ QueueOK /\ NowOK /\ BatchesOK /\ TimersOK
  BY TypeParts
<1>b. now.do # "remove" => ToRemoveFrom = {}
  BY DEF ToRemoveFrom
<1>c. \A f \in Files : UNCHANGED actions => (QueuedEvent(f)' <=> QueuedEvent(f))
  BY DEF QueuedEvent
<1>d. ASSUME UNCHANGED <<fileHashes, device, batch, ahead>> PROVE RecordedIsOnTheWay'
  BY <1>d DEF DevicesInv, RecordedIsOnTheWay
<1>e. ASSUME UNCHANGED <<fileHashes, device, ahead, now, opened>> PROVE SentIsRecorded'
  BY <1>e DEF DevicesInv, SentIsRecorded
<1>f. now'.do # "send" => SentIsRecorded'
  BY DEF SentIsRecorded
<1>g. ASSUME UNCHANGED <<disk, device, batch, told, ahead>>, ToRemoveFrom = {},
             \A f \in Files : Reported(f) => Reported(f)'
      PROVE  OutOfDateIsPending'
  BY <1>g, TakenAreFiles DEF DevicesInv, OutOfDateIsPending
<1>h. ASSUME UNCHANGED now PROVE ToRemoveFrom' = ToRemoveFrom
  BY <1>h DEF ToRemoveFrom
<1>i. \A e \in Events, f \in Files :
         Event(e, f) \in Queued /\ Event(e, f).do = "event" /\ Event(e, f).file = f
  BY DEF Queued, Event
<1>j. Sync \in Queued /\ Sync.do # "event"
  BY DEF Queued, Sync
<1>k. \A f \in Files : now.do # "hash" /\ (QueuedEvent(f) => QueuedEvent(f)') => (Reported(f) => Reported(f)')
  BY DEF Reported
<1>1. ASSUME NEW f \in Files, Edit(f) PROVE DevicesInv'
  <2>1. PICK c \in Contents \cup {Missing} :
           /\ disk' = [disk EXCEPT ![f] = c]
           /\ Dispatch(Event(IF c = Missing THEN "deleted"
                             ELSE IF disk[f] = Missing THEN "added" ELSE "changed", f))
    BY <1>1 DEF Edit
  <2>2. PICK e \in Events : Dispatch(Event(e, f))
    BY <2>1 DEF Events
  <2>3. QueuedEvent(f)' /\ \A g \in Files : QueuedEvent(g) => QueuedEvent(g)'
    BY <1>a, <1>i, <2>2, ReportsGrow
  <2>4. UNCHANGED <<fileHashes, now, batch, opened, device, told, ahead>>
    BY <1>1 DEF Edit, batches, devices
  <2>5. \A g \in Files : (Reported(g) => Reported(g)') /\ Reported(f)'
    BY <2>3, <2>4 DEF Reported
  <2>6. \A g \in Files \ {f} : disk'[g] = disk[g]
    BY <1>a, <2>1 DEF WorldOK
  <2>7. OutOfDateIsPending'
    BY <1>h, <2>4, <2>5, <2>6, TakenAreFiles DEF DevicesInv, OutOfDateIsPending
  <2> QED
    BY <1>d, <1>e, <2>4, <2>7 DEF DevicesInv
<1>2. ASSUME UNCHANGED <<files, fileHashes, now, batch, opened, devices>>,
             \A f \in Files : QueuedEvent(f) => QueuedEvent(f)'
      PROVE  DevicesInv'
  <2>1. OutOfDateIsPending'
    BY <1>2, <1>h, TakenAreFiles DEF DevicesInv, OutOfDateIsPending, Reported, files, devices
  <2> QED
    BY <1>2, <1>d, <1>e, <2>1 DEF DevicesInv, devices
<1>3. CASE Done
  <2>1. \A f \in Files : QueuedEvent(f) => QueuedEvent(f)'
    BY <1>3, <1>a, <1>j, ReportsGrow DEF Done
  <2> QED
    BY <1>2, <1>3, <2>1 DEF Done
<1>4. ASSUME NEW event \in Events, NEW f \in Files, StartEvent(event, f) PROVE DevicesInv'
  <2>1. /\ Dequeue(Event(event, f)) /\ UNCHANGED <<disk, devices>> /\ now = Idle
        /\ \/ Handle(event, f, disk[f])
           \/ now' = Hashing(event, f) /\ UNCHANGED <<fileHashes, batches>>
    BY <1>4 DEF StartEvent, files, Dequeue
  <2>2. \A g \in Files \ {f} : Reported(g) => QueuedEvent(g)'
    BY <1>a, <1>i, <2>1, ReportsShrink DEF Reported, Idle
  <2>3. ToRemoveFrom = {}
    BY <1>b, <2>1 DEF Idle
  <2>4. CASE Handle(event, f, disk[f])
    BY <2>1, <2>2, <2>3, <2>4, HandleReachesDevices
  <2>5. CASE now' = Hashing(event, f) /\ UNCHANGED <<fileHashes, batches>>
    <3>1. \A g \in Files : Reported(g) => Reported(g)'
      BY <2>2, <2>5 DEF Reported, Hashing
    <3> QED
      BY <1>d, <1>f, <1>g, <2>1, <2>3, <2>5, <3>1 DEF DevicesInv, Hashing, batches, devices
  <2> QED
    BY <2>1, <2>4, <2>5
<1>5. CASE Hashed
  <2>1. PICK f \in Files, event \in Events : f = now.file /\ event = now.event
    BY <1>a, <1>5, NowFields DEF Hashed
  <2>2. now.do = "hash" /\ UNCHANGED <<disk, actions, devices>>
    BY <1>5 DEF Hashed, files
  <2>3. ToRemoveFrom = {}
    BY <1>b, <2>2
  <2>4. \A g \in Files \ {f} : Reported(g) => QueuedEvent(g)'
    BY <1>c, <2>1, <2>2 DEF Reported
  <2>5. CASE disk[f] = Missing /\ now' = Idle /\ UNCHANGED <<fileHashes, batches>>
    <3>1. QueuedEvent(f)
      BY <2>1, <2>2, <2>5 DEF DiskInv, NowFollowsDisk
    <3>2. \A g \in Files : Reported(g) => Reported(g)'
      BY <1>c, <2>2, <2>4, <3>1 DEF Reported
    <3> QED
      BY <1>d, <1>f, <1>g, <2>2, <2>3, <2>5, <3>2 DEF DevicesInv, Idle, batches, devices
  <2>6. CASE Handle(event, f, disk[f])
    BY <2>2, <2>3, <2>4, <2>6, HandleReachesDevices
  <2> QED
    BY <1>5, <2>1, <2>5, <2>6 DEF Hashed
<1>6. CASE RemoveFile
  <2>1. PICK f \in Files, k \in DOMAIN Data : f = now.file /\ k = now.place
    BY <1>a, <1>6, NowFields DEF RemoveFile
  <2>2. Data[k] \in Platforms /\ Len(Data) \in Nat /\ DOMAIN Data = 1 .. Len(Data)
    BY LiveSyncAssumption
  <2>3. PICK p \in Platforms : p = Data[k]
    BY <2>2
  <2>4. /\ now.do = "remove" /\ UNCHANGED <<disk, fileHashes, actions, batch>>
        /\ device' = [device EXCEPT ![p][f] = Missing]
        /\ told' = [told EXCEPT ![p] = @ \ {f}]
        /\ ahead' = [ahead EXCEPT ![p] = @ \ {f}]
    BY <1>6, <2>1, <2>3 DEF RemoveFile, files, batches
  <2>5. /\ device'[p][f] = Missing
        /\ \A q \in Platforms, g \in Files :
              q # p \/ g # f => /\ device'[q][g] = device[q][g]
                                /\ g \in told[q] => g \in told'[q]
                                /\ g \in ahead[q] => g \in ahead'[q]
    BY <1>a, <2>4 DEF WorldOK
  <2>6. fileHashes[f] = Unknown /\ (disk[f] = Missing \/ QueuedEvent(f))
    BY <2>1, <2>4 DEF DiskInv, NowFollowsDisk
  <2>7. \A q \in Platforms : q \in ToRemoveFrom /\ f \in Takes[q] /\ q # p => q \in ToRemoveFrom' /\ now'.file = f
    <3> SUFFICES ASSUME NEW q \in Platforms, q \in ToRemoveFrom, f \in Takes[q], q # p
                 PROVE  q \in ToRemoveFrom' /\ now'.file = f
      OBVIOUS
    <3>1. PICK j \in k .. Len(Data) : Data[j] = q
      BY <2>1, <2>4 DEF ToRemoveFrom
    <3>2. j \in k + 1 .. Len(Data)
      BY <2>2, <2>3, <3>1
    <3>3. PICK i \in k + 1 .. Len(Data) :
             now' = Removing(f, i) /\ \A l \in k + 1 .. i - 1 : f \notin Takes[Data[l]]
      BY <1>a, <1>6, <2>1, <3>1, <3>2, RemoveFileEnds
    <3>4. j \in i .. Len(Data)
      BY <2>2, <3>1, <3>2, <3>3
    <3>5. now'.do = "remove" /\ now'.file = f /\ now'.place = i
      BY <3>3 DEF Removing
    <3> QED
      BY <3>1, <3>4, <3>5 DEF ToRemoveFrom
  <2>8. RecordedIsOnTheWay'
    <3> SUFFICES ASSUME NEW q \in Platforms, NEW g \in Takes[q], fileHashes[g] # Unknown
                 PROVE  device'[q][g] = fileHashes[g] \/ g \in batch[q] \/ g \in ahead'[q]
      BY <2>4 DEF RecordedIsOnTheWay
    <3> QED
      BY <2>5, <2>6, TakenAreFiles DEF DevicesInv, RecordedIsOnTheWay
  <2>9. OutOfDateIsPending'
    <3> SUFFICES ASSUME NEW q \in Platforms, NEW g \in Takes[q], device'[q][g] # disk[g]
                 PROVE  \/ QueuedEvent(g)'
                        \/ q \in ToRemoveFrom' /\ now'.file = g
                        \/ g \in batch[q]
                        \/ g \in told'[q]
                        \/ g \in ahead'[q]
      BY <2>4 DEF OutOfDateIsPending, Reported
    <3>1. g \in Files
      BY TakenAreFiles
    <3>2. CASE q = p /\ g = f
      BY <1>c, <2>4, <2>5, <2>6, <3>1, <3>2
    <3>3. CASE q # p \/ g # f
      <4>1. \/ QueuedEvent(g)
            \/ q \in ToRemoveFrom /\ g = f
            \/ g \in batch[q]
            \/ g \in told[q]
            \/ g \in ahead[q]
        BY <2>1, <2>4, <2>5, <3>1, <3>3 DEF DevicesInv, OutOfDateIsPending, Reported
      <4> QED
        BY <1>c, <2>4, <2>5, <2>7, <3>1, <3>3, <4>1
    <3> QED
      BY <3>2, <3>3
  <2>10. now'.do # "send"
    BY <1>a, <1>6, RemoveFileEnds DEF Idle, Removing
  <2> QED
    BY <1>f, <2>8, <2>9, <2>10 DEF DevicesInv
<1>7. CASE RemoveFails
  <2>1. PICK f \in Files : f = now.file
    BY <1>a, <1>7, NowFields DEF RemoveFails
  <2>2. /\ now.do = "remove" /\ now' = Idle
        /\ UNCHANGED <<disk, fileHashes, actions, batch, device, ahead>>
        /\ told' = [p \in Platforms |-> IF p \in ToRemoveFrom THEN told[p] \cup ({f} \cap Takes[p]) ELSE told[p]]
    BY <1>7, <2>1 DEF RemoveFails, files, batches
  <2>3. OutOfDateIsPending'
    <3> SUFFICES ASSUME NEW q \in Platforms, NEW g \in Takes[q], device[q][g] # disk[g]
                 PROVE  QueuedEvent(g)' \/ g \in batch[q] \/ g \in told'[q] \/ g \in ahead[q]
      BY <2>2 DEF OutOfDateIsPending, Reported
    <3>1. \/ QueuedEvent(g)
          \/ q \in ToRemoveFrom /\ g = f
          \/ g \in batch[q]
          \/ g \in told[q]
          \/ g \in ahead[q]
      BY <2>1, <2>2 DEF DevicesInv, OutOfDateIsPending, Reported
    <3> QED
      BY <1>c, <2>2, <3>1, TakenAreFiles
  <2> QED
    BY <1>d, <1>f, <2>2, <2>3 DEF DevicesInv, Idle
<1>8. CASE StartSync
  <2>1. Dequeue(Sync) /\ now = Idle /\ UNCHANGED <<disk, fileHashes, batch, opened, devices>> /\ now' = NextBatch(1)
    BY <1>8 DEF StartSync, files, batches, Dequeue
  <2>2. \A f \in Files : Reported(f) => Reported(f)'
    BY <1>a, <1>j, <1>k, <2>1, ReportsShrink DEF Idle
  <2>3. SentIsRecorded'
    BY <2>1 DEF NextBatch, SentIsRecorded, Idle, Sending
  <2> QED
    BY <1>b, <1>d, <1>g, <2>1, <2>2, <2>3 DEF DevicesInv, Idle, devices
<1>9. ASSUME NEW f \in Files, SendFile(f) PROVE DevicesInv'
  <2>1. now.place \in DOMAIN opened /\ opened[now.place] \in Platforms /\ now = Sending(now.place, now.sent)
    BY <1>a, <1>9, NowFields DEF SendFile, BatchesOK
  <2>2. PICK p \in Platforms : p = opened[now.place]
    BY <2>1
  <2>3. /\ now.do = "send" /\ f \in batch[p]
        /\ UNCHANGED <<disk, fileHashes, actions, batch, opened>>
        /\ device' = [device EXCEPT ![p][f] = disk[f]]
        /\ told' = [told EXCEPT ![p] = @ \ {f}]
        /\ ahead' = [ahead EXCEPT ![p] = IF fileHashes[f] = disk[f] THEN @ \ {f} ELSE @ \cup {f}]
        /\ now' = [now EXCEPT !.sent = @ \cup {f}]
    BY <1>9, <2>2 DEF SendFile, files, batches
  <2>4. now'.do = "send" /\ now'.place = now.place /\ now'.sent = now.sent \cup {f}
    BY <2>1, <2>3 DEF Sending
  <2>5. /\ device'[p][f] = disk[f] /\ (fileHashes[f] = disk[f] \/ f \in ahead'[p])
        /\ \A q \in Platforms, g \in Files :
              q # p \/ g # f => /\ device'[q][g] = device[q][g]
                                /\ g \in told[q] => g \in told'[q]
                                /\ g \in ahead[q] => g \in ahead'[q]
    BY <1>a, <2>3 DEF WorldOK
  <2>6. RecordedIsOnTheWay'
    <3> SUFFICES ASSUME NEW q \in Platforms, NEW g \in Takes[q], fileHashes[g] # Unknown
                 PROVE  device'[q][g] = fileHashes[g] \/ g \in batch[q] \/ g \in ahead'[q]
      BY <2>3 DEF RecordedIsOnTheWay
    <3> QED
      BY <2>3, <2>5, TakenAreFiles DEF DevicesInv, RecordedIsOnTheWay
  <2>7. SentIsRecorded'
    <3> SUFFICES ASSUME NEW g \in now.sent \cup {f} PROVE device'[p][g] = fileHashes[g] \/ g \in ahead'[p]
      BY <2>2, <2>3, <2>4 DEF SentIsRecorded
    <3>1. g \in Files
      BY <1>a, <2>3, NowFields DEF BatchesOK
    <3>2. CASE g = f
      BY <2>5, <3>2
    <3>3. CASE g # f
      BY <2>2, <2>3, <2>5, <3>1, <3>3 DEF DevicesInv, SentIsRecorded
    <3> QED
      BY <3>2, <3>3
  <2>8. OutOfDateIsPending'
    <3> SUFFICES ASSUME NEW q \in Platforms, NEW g \in Takes[q], device'[q][g] # disk[g]
                 PROVE  QueuedEvent(g)' \/ g \in batch[q] \/ g \in told'[q] \/ g \in ahead'[q]
      BY <2>3 DEF OutOfDateIsPending, Reported
    <3>1. g \in Files /\ (q # p \/ g # f)
      BY <2>5, TakenAreFiles
    <3>2. QueuedEvent(g) \/ g \in batch[q] \/ g \in told[q] \/ g \in ahead[q]
      BY <1>b, <2>3, <2>5, <3>1 DEF DevicesInv, OutOfDateIsPending, Reported
    <3> QED
      BY <1>c, <2>3, <2>5, <3>1, <3>2
  <2> QED
    BY <2>6, <2>7, <2>8 DEF DevicesInv
<1>10. CASE SendFails
  <2>1. now.do = "send" /\ now' = Idle /\ UNCHANGED <<disk, fileHashes, actions, batch, devices>>
    BY <1>10 DEF SendFails, files
  <2> QED
    BY <1>b, <1>c, <1>d, <1>f, <1>g, <1>k, <2>1 DEF DevicesInv, Idle, devices
<1>11. CASE Reset
  <2>1. now.place \in DOMAIN opened /\ opened[now.place] \in Platforms
    BY <1>a, <1>11, NowFields DEF Reset, BatchesOK
  <2>2. PICK p \in Platforms : p = opened[now.place]
    BY <2>1
  <2>3. /\ now.do = "send" /\ now.sent = batch[p] /\ batch' = [batch EXCEPT ![p] = {}]
        /\ now' = NextBatch(now.place + 1)
        /\ UNCHANGED <<disk, fileHashes, actions, opened, device, told, ahead>>
    BY <1>11, <2>2 DEF Reset, files, devices
  <2>4. \A q \in Platforms : q # p => batch'[q] = batch[q]
    BY <1>a, <2>3 DEF BatchesOK
  <2>5. \A f \in batch[p] : device[p][f] = fileHashes[f] \/ f \in ahead[p]
    BY <2>2, <2>3 DEF DevicesInv, SentIsRecorded
  <2>6. RecordedIsOnTheWay'
    <3> SUFFICES ASSUME NEW q \in Platforms, NEW g \in Takes[q], fileHashes[g] # Unknown
                 PROVE  device[q][g] = fileHashes[g] \/ g \in batch'[q] \/ g \in ahead[q]
      BY <2>3 DEF RecordedIsOnTheWay
    <3> QED
      BY <2>4, <2>5 DEF DevicesInv, RecordedIsOnTheWay
  <2>7. SentIsRecorded'
    BY <2>3 DEF NextBatch, SentIsRecorded, Idle, Sending
  <2>8. OutOfDateIsPending'
    <3> SUFFICES ASSUME NEW q \in Platforms, NEW g \in Takes[q], device[q][g] # disk[g]
                 PROVE  QueuedEvent(g)' \/ g \in batch'[q] \/ g \in told[q] \/ g \in ahead[q]
      BY <2>3 DEF OutOfDateIsPending, Reported
    <3>1. g \in Files
      BY TakenAreFiles
    <3>2. QueuedEvent(g) \/ g \in batch[q] \/ g \in told[q] \/ g \in ahead[q]
      BY <1>b, <2>3 DEF DevicesInv, OutOfDateIsPending, Reported
    <3>3. CASE q = p /\ g \in batch[p]
      <4>1. device[p][g] # Unknown
        BY <1>a, <3>1, LiveSyncAssumption DEF WorldOK
      <4>2. fileHashes[g] \in {disk[g], Unknown} \/ QueuedEvent(g)
        BY <2>3, <3>1 DEF DiskInv, HashesFollowDisk, Reported
      <4> QED
        BY <1>c, <2>3, <2>5, <3>1, <3>3, <4>1, <4>2
    <3> QED
      BY <1>c, <2>3, <2>4, <3>1, <3>2, <3>3
  <2> QED
    BY <2>6, <2>7, <2>8 DEF DevicesInv
<1>12. ASSUME NEW p \in Platforms, BatchTimer(p) PROVE DevicesInv'
  BY <1>2, <1>12, <1>c DEF BatchTimer
<1>13. CASE UNCHANGED vars
  BY <1>2, <1>13, <1>c DEF vars, batches
<1> QED
  BY <1>1, <1>3, <1>4, <1>5, <1>6, <1>7, <1>8, <1>9, <1>10, <1>11, <1>12, <1>13
  DEF Next, Dispatcher, Quiet

-----------------------------------------------------------------------------
(* What the batches wait for *)

\* The queue holds the action of done: after it grew, and after another action
\* was taken from it.
LEMMA SyncsGrow ==
    ASSUME QueueOK, NEW a \in Queued, Dispatch(a)
    PROVE  Contains(actions, Sync) \/ a = Sync => Contains(actions, Sync)'
<1>1. /\ Len(actions) \in Nat /\ Len(actions') = Len(actions) + 1
      /\ DOMAIN actions = 1 .. Len(actions) /\ DOMAIN actions' = 1 .. Len(actions')
      /\ \A i \in 1 .. Len(actions) : actions'[i] = actions[i]
      /\ actions'[Len(actions) + 1] = a
  BY QueueGrows
<1> QED
  BY <1>1 DEF Contains, Sync

LEMMA SyncsShrink ==
    ASSUME QueueOK, NEW a, Dequeue(a), a # Sync
    PROVE  Contains(actions, Sync) => Contains(actions, Sync)'
<1>1. /\ Len(actions) \in Nat \ {0} /\ actions[1] = a
      /\ Len(actions') = Len(actions) - 1
      /\ DOMAIN actions = 1 .. Len(actions) /\ DOMAIN actions' = 1 .. Len(actions')
      /\ \A i \in 1 .. Len(actions) - 1 : actions'[i] = actions[i + 1]
  BY QueueShrinks
<1>2. ASSUME NEW i \in DOMAIN actions, actions[i] = Sync
      PROVE  i - 1 \in DOMAIN actions' /\ actions'[i - 1] = Sync
  BY <1>1, <1>2
<1> QED
  BY <1>2 DEF Contains, Sync

\* Sending goes on with every platform from a place on that has files.
LEMMA NextBatchComesToAll ==
    ASSUME BatchesOK, NEW from \in Nat \ {0}, UNCHANGED opened, now' = NextBatch(from),
           NEW j \in from .. Len(opened), batch[opened[j]] # {}
    PROVE  opened[j] \in ToSend'
<1>1. opened \in Seq(Platforms) /\ Len(opened) \in Nat
  BY DEF BatchesOK
<1>2. PICK i \in from .. Len(opened) :
         now' = Sending(i, {}) /\ \A k \in from .. i - 1 : batch[opened[k]] = {}
  BY <1>1, NextBatchIsNext
<1>3. j \in i .. Len(opened)
  BY <1>1, <1>2
<1>4. now'.do = "send" /\ now'.place = i
  BY <1>2 DEF Sending
<1> QED
  BY <1>3, <1>4 DEF ToSend

\* A handler that ends forgets no batch.
LEMMA HandleKeepsBatches ==
    ASSUME TypeOK, NEW event \in Events, NEW f \in Files, NEW hash, Handle(event, f, hash),
           BatchHasAFuture, ToSend = {}, Contains(actions, Sync) => Contains(actions, Sync)'
    PROVE  BatchHasAFuture'
<1>a. BatchesOK /\ TimersOK
  BY TypeParts
<1>1. CASE AddToBatches(f)
  <2> SUFFICES ASSUME NEW p \in Platforms, batch'[p] # {}
               PROVE  timer'[p] \/ dones' > 0 \/ Contains(actions, Sync)' \/ aborted'[p]
    BY DEF BatchHasAFuture
  <2>1. /\ batch'[p] = batch[p] \cup ({f} \cap Takes[p]) /\ timer'[p] = (f \in Takes[p] \/ timer[p])
        /\ aborted'[p] = (f \notin Takes[p] /\ aborted[p]) /\ dones' = dones
    BY <1>1, <1>a, BatchesGrow
  <2>2. CASE f \in Takes[p]
    BY <2>1, <2>2
  <2>3. CASE f \notin Takes[p]
    <3>1. batch[p] # {}
      BY <2>1, <2>3
    <3> QED
      BY <2>1, <2>3, <3>1 DEF BatchHasAFuture
  <2> QED
    BY <2>2, <2>3
<1>2. CASE UNCHANGED batches
  BY <1>2 DEF batches, BatchHasAFuture
<1> QED
  BY <1>a, <1>1, <1>2, HandleEnds

\* Every step keeps the batches on their way.
LEMMA BatchStep ==
    ASSUME TypeOK, BatchHasAFuture, [Next]_vars PROVE BatchHasAFuture'
<1>a. WorldOK /\ QueueOK /\ NowOK /\ BatchesOK /\ TimersOK
  BY TypeParts
<1>b. now.do # "send" => ToSend = {}
  BY DEF ToSend
<1>c. UNCHANGED actions => (Contains(actions, Sync) => Contains(actions, Sync)')
  BY DEF Contains, Sync
<1>d. ASSUME UNCHANGED batches, ToSend = {} \/ UNCHANGED now,
             Contains(actions, Sync) => Contains(actions, Sync)'
      PROVE  BatchHasAFuture'
  <2>1. ToSend \subseteq ToSend'
    BY <1>d DEF ToSend, batches
  <2> QED
    BY <1>d, <2>1 DEF batches, BatchHasAFuture
<1>e. Sync \in Queued /\ \A e \in Events, f \in Files : Event(e, f) \in Queued /\ Event(e, f) # Sync
  <2>1. \A e \in Events, f \in Files : Event(e, f).do # Sync.do
    BY DEF Event, Sync
  <2> QED
    BY <2>1 DEF Queued
<1>f. opened \in Seq(Platforms) /\ Len(opened) \in Nat /\ DOMAIN opened = 1 .. Len(opened)
  BY <1>a DEF BatchesOK
<1>1. ASSUME NEW f \in Files, Edit(f) PROVE BatchHasAFuture'
  <2>1. PICK e \in Events : Dispatch(Event(e, f))
    BY <1>1 DEF Edit, Events
  <2>2. Contains(actions, Sync) => Contains(actions, Sync)'
    BY <1>a, <1>e, <2>1, SyncsGrow
  <2> QED
    BY <1>d, <1>1, <2>2 DEF Edit
<1>2. ASSUME NEW p \in Platforms, BatchTimer(p) PROVE BatchHasAFuture'
  <2>1. UNCHANGED <<actions, now, batch, opened, aborted>>
    BY <1>2 DEF BatchTimer
  <2>2. ToSend' = ToSend
    BY <2>1 DEF ToSend
  <2>3. dones \in Nat /\ dones' \in Nat /\ dones' >= dones /\ (batch[p] # {} => dones' > 0)
    BY <1>a, <1>2 DEF TimersOK, BatchTimer
  <2>4. \A q \in Platforms : q # p => timer'[q] = timer[q]
    BY <1>a, <1>2 DEF TimersOK, BatchTimer
  <2> SUFFICES ASSUME NEW q \in Platforms, batch[q] # {}
               PROVE  timer'[q] \/ dones' > 0 \/ Contains(actions, Sync)' \/ q \in ToSend \/ aborted[q]
    BY <2>1, <2>2 DEF BatchHasAFuture
  <2>5. CASE q = p
    BY <2>3, <2>5
  <2>6. CASE q # p
    BY <1>c, <2>1, <2>3, <2>4, <2>6 DEF BatchHasAFuture
  <2> QED
    BY <2>5, <2>6
<1>3. CASE Done
  <2>1. Contains(actions, Sync)'
    BY <1>a, <1>e, <1>3, SyncsGrow DEF Done
  <2> QED
    BY <2>1 DEF BatchHasAFuture
<1>4. ASSUME NEW event \in Events, NEW f \in Files, StartEvent(event, f) PROVE BatchHasAFuture'
  <2>1. /\ Dequeue(Event(event, f)) /\ now = Idle
        /\ Handle(event, f, Missing) \/ UNCHANGED batches
    BY <1>4 DEF StartEvent, Dequeue
  <2>2. Contains(actions, Sync) => Contains(actions, Sync)'
    BY <1>a, <1>e, <2>1, SyncsShrink
  <2>3. ToSend = {}
    BY <1>b, <2>1 DEF Idle
  <2> QED
    BY <1>d, <2>1, <2>2, <2>3, HandleKeepsBatches
<1>5. CASE Hashed
  <2>1. now.do = "hash" /\ now.file \in Files /\ now.event \in Events /\ UNCHANGED actions
    BY <1>a, <1>5, NowFields DEF Hashed
  <2>2. Handle(now.event, now.file, disk[now.file]) \/ UNCHANGED batches
    BY <1>5 DEF Hashed
  <2> QED
    BY <1>b, <1>c, <1>d, <2>1, <2>2, HandleKeepsBatches
<1>6. CASE RemoveFile
  BY <1>b, <1>c, <1>d, <1>6 DEF RemoveFile
<1>7. CASE RemoveFails
  BY <1>b, <1>c, <1>d, <1>7 DEF RemoveFails
<1>8. CASE StartSync
  <2>1. now' = NextBatch(1) /\ UNCHANGED <<batch, opened>>
    BY <1>8 DEF StartSync, batches
  <2> SUFFICES ASSUME NEW q \in Platforms, batch[q] # {} PROVE q \in ToSend'
    BY <2>1 DEF BatchHasAFuture
  <2>2. PICK j \in 1 .. Len(opened) : opened[j] = q
    BY <1>a, <1>f DEF BatchesOK, Contains
  <2> QED
    BY <1>a, <2>1, <2>2, NextBatchComesToAll
<1>9. ASSUME NEW f \in Files, SendFile(f) PROVE BatchHasAFuture'
  <2>1. now = Sending(now.place, now.sent)
    BY <1>a, <1>9, NowFields DEF SendFile
  <2>2. now'.do = "send" /\ now'.place = now.place /\ UNCHANGED <<actions, batches>>
    BY <1>9, <2>1 DEF SendFile, Sending
  <2>3. ToSend' = ToSend
    BY <1>9, <2>2 DEF ToSend, batches, SendFile
  <2> QED
    BY <1>c, <2>2, <2>3 DEF BatchHasAFuture, batches
<1>10. CASE SendFails
  <2>1. \A p \in Platforms : aborted'[p] = (aborted[p] \/ batch[p] # {}) /\ batch'[p] = batch[p]
    BY <1>10 DEF SendFails
  <2> QED
    BY <2>1 DEF BatchHasAFuture
<1>11. CASE Reset
  <2>1. now.place \in DOMAIN opened /\ opened[now.place] \in Platforms
    BY <1>a, <1>f, <1>11, NowFields DEF Reset, BatchesOK
  <2>2. PICK p \in Platforms : p = opened[now.place]
    BY <2>1
  <2>3. /\ now.do = "send" /\ batch' = [batch EXCEPT ![p] = {}] /\ aborted' = [aborted EXCEPT ![p] = FALSE]
        /\ now' = NextBatch(now.place + 1)
        /\ UNCHANGED <<actions, opened, timer, dones>>
    BY <1>11, <2>2 DEF Reset
  <2> SUFFICES ASSUME NEW q \in Platforms, batch'[q] # {}
               PROVE  timer[q] \/ dones > 0 \/ Contains(actions, Sync) \/ q \in ToSend' \/ aborted'[q]
    BY <1>c, <2>3 DEF BatchHasAFuture
  <2>4. q # p /\ batch[q] # {} /\ aborted'[q] = aborted[q]
    BY <1>a, <2>3 DEF BatchesOK, TimersOK
  <2>5. ASSUME q \in ToSend PROVE q \in ToSend'
    <3>1. PICK j \in now.place .. Len(opened) : opened[j] = q
      BY <2>3, <2>5 DEF ToSend
    <3>2. now.place + 1 \in Nat \ {0} /\ j \in now.place + 1 .. Len(opened)
      BY <1>f, <2>1, <2>2, <2>4, <3>1
    <3> QED
      BY <1>a, <2>3, <2>4, <3>1, <3>2, NextBatchComesToAll
  <2> QED
    BY <2>4, <2>5 DEF BatchHasAFuture
<1>12. CASE UNCHANGED vars
  BY <1>12, <1>c, <1>d DEF vars
<1> QED
  BY <1>1, <1>2, <1>3, <1>4, <1>5, <1>6, <1>7, <1>8, <1>9, <1>10, <1>11, <1>12
  DEF Next, Dispatcher, Quiet

-----------------------------------------------------------------------------
(* The theorems *)

LiveSyncInv == TypeOK /\ DiskInv /\ DevicesInv /\ BatchHasAFuture

\* The invariant holds from the start: the full sync has brought the devices up
\* to date, and nothing waits or runs.
LEMMA LiveSyncStarts == Init => LiveSyncInv
<1> SUFFICES ASSUME Init PROVE LiveSyncInv
  OBVIOUS
<1>1. WorldOK /\ QueueOK /\ NowOK /\ TimersOK
  BY LiveSyncAssumption DEF Init, WorldOK, QueueOK, NowOK, TimersOK
<1>2. BatchesOK
  BY DEF Init, BatchesOK, IsInjective
<1>3. TypeOK
  BY <1>1, <1>2, TypeParts
<1>4. DiskInv
  BY DEF Init, DiskInv, HashesFollowDisk, DeletionsFollowDisk, NowFollowsDisk, Idle
<1>5. DevicesInv
  BY TakenAreFiles DEF Init, DevicesInv, RecordedIsOnTheWay, SentIsRecorded, OutOfDateIsPending, Idle
<1>6. BatchHasAFuture
  BY DEF Init, BatchHasAFuture
<1> QED
  BY <1>3, <1>4, <1>5, <1>6 DEF LiveSyncInv

\* What the hashes know, what the devices have and what the batches wait for
\* only hold together: a hash lets a report be skipped for what the devices have.
THEOREM LiveSyncInvariant == Spec => []LiveSyncInv
<1>1. LiveSyncInv /\ [Next]_vars => LiveSyncInv'
  BY TypeStep, DiskStep, DevicesStep, BatchStep DEF LiveSyncInv
<1> QED
  BY LiveSyncStarts, <1>1, PTL DEF Spec

\* What is queued, runs, is batched, sent or recorded is of its type; batches
\* only hold files their platform takes, and have a place in the order of batches.
THEOREM LiveSyncTypeCorrect == Spec => []TypeOK
BY LiveSyncInvariant, PTL DEF LiveSyncInv

\* A recorded hash is the one of the file on disk, unless a report of the file
\* waits: a hash that is compared with a later report never skips news.
THEOREM LiveSyncHashesFollowDisk == Spec => []HashesFollowDisk
BY LiveSyncInvariant, PTL DEF LiveSyncInv, DiskInv

\* A device without what is on disk is waiting for it, or the user was told, or
\* the file changed between its hash and its transfer.
THEOREM LiveSyncOutOfDateIsPending == Spec => []OutOfDateIsPending
BY LiveSyncInvariant, PTL DEF LiveSyncInv, DevicesInv

\* A batch that has files will be sent, unless a sync failed since.
THEOREM LiveSyncBatchHasAFuture == Spec => []BatchHasAFuture
BY LiveSyncInvariant, PTL DEF LiveSyncInv
=============================================================================
