------------------------- MODULE UserSettingsProofs -------------------------
(***************************************************************************)
(* What UserSettings guarantees for any number of processes, calls,        *)
(* settings and kills.  The properties speak of what holds as long as no   *)
(* call unlinked the lock file of another one; the invariant adds who has  *)
(* the lock file then, and what a process that writes knows.               *)
(***************************************************************************)
EXTENDS UserSettings, TLAPS

\* Who works on the file, or waits for the lock it holds, created the lock file.
LockHeld == ~seized => \A c \in Calls : Holds(c) => lock = c

\* A call that runs has one or two executeActionWithLock open.  The second one
\* works only after its lock was taken away, and a removal writes only there.
Depths ==
    \A c \in Calls :
        /\ pc[c] # "idle" => depth[c] \in {1, 2}
        /\ pc[c] \in InFile /\ depth[c] = 2 => seized
        /\ op[c].kind = "remove" /\ pc[c] \in {"write", "fill"} => depth[c] = 2

\* A call that writes finds the file as it left it and has its value in data.
Filling ==
    ~seized => \A c \in Calls : pc[c] = "fill" =>
        /\ file = Torn /\ c \in opened
        /\ op[c].kind = "save" => Data(c)[op[c].key] = op[c].value

\* c is writing another value of the setting.
Replaces(c, p, k) ==
    ProcOf[c] = p /\ pc[c] = "fill" /\ op[c].kind = "save" /\ op[c].key = k

\* A process knows what it saved, until it removes it or saves another value.
OwnIsKnown ==
    ~seized => \A p \in Procs, k \in Keys : own[p][k] # None =>
        /\ data[p] # NoData
        /\ data[p][k] = own[p][k] \/ \E c \in Calls : Replaces(c, p, k)

\* A process that writes has settings, its own {} if there were none.
HasData == \A c \in Calls : pc[c] = "fill" => Data(c) # NoData

LockInv == TypeOK /\ LockHeld /\ Depths /\ HasData /\ LockIsReleased

\* What is known of the file, the data and the history as long as nobody seized.
WriterInv == Filling /\ OwnIsKnown /\ LastWriterPrevails

\* While nobody was killed or seized, a truncated file is being written.
TornIsWritten ==
    file = Torn /\ ~seized /\ crashes = 0 => \E c \in Calls : pc[c] = "fill"

IInv == LockInv /\ WriterInv /\ TornIsWritten

-----------------------------------------------------------------------------
(* Types *)

\* What a call loads and writes, and what loading leaves of the file.
LEMMA DataTypes ==
    ASSUME TypeOK, NEW c \in Calls
    PROVE  /\ ProcOf[c] \in Procs
           /\ Data(c) \in Settings \cup {NoData}
           /\ Loaded(c) \in Settings \cup {NoData}
           /\ FileAfterLoad(c) \in Settings \cup {Missing, Null, Torn}
           /\ Empty \in Settings
           /\ Merged(c) \in Settings
<1>1. ProcOf[c] \in Procs /\ Data(c) \in Settings \cup {NoData}
  BY UserSettingsAssumption DEF UserSettingsAssumption, TypeOK, Data
<1>2. Loaded(c) \in Settings \cup {NoData}
  BY <1>1 DEF Loaded
<1>3. FileAfterLoad(c) \in Settings \cup {Missing, Null, Torn}
  BY DEF FileAfterLoad, TypeOK
<1>4. Empty \in Settings
  BY DEF Empty, Settings
<1>5. Merged(c) \in Settings
  <2> DEFINE known == IF Data(c) = NoData THEN Empty ELSE Data(c)
  <2>1. known \in Settings
    BY <1>1, <1>4
  <2>2. CASE op[c].kind = "save"
    <3>1. op[c] \in Operation \cup {NoOp}
      BY DEF TypeOK
    <3>2. op[c].key \in Keys /\ op[c].value \in Values
      BY <3>1, <2>2 DEF Operation, NoOp
    <3>3. [known EXCEPT ![op[c].key] = op[c].value] \in Settings
      BY <2>1, <3>2 DEF Settings
    <3> QED
      BY <3>3, <2>2 DEF Merged
  <2>3. CASE op[c].kind # "save"
    BY <2>1, <2>3 DEF Merged
  <2> QED
    BY <2>2, <2>3
<1> QED
  BY <1>1, <1>2, <1>3, <1>4, <1>5

\* A key that is removed or saved is a key.
LEMMA OperationKeys ==
    ASSUME TypeOK, NEW c \in Calls, op[c].kind \in {"save", "remove", "get"}
    PROVE  op[c] \in Operation /\ op[c].key \in Keys
  BY DEF TypeOK, Operation, NoOp

LEMMA SavedValue ==
    ASSUME TypeOK, NEW c \in Calls, op[c].kind = "save"
    PROVE  op[c].key \in Keys /\ op[c].value \in Values
<1>1. op[c] \in Operation \cup {NoOp}
  BY DEF TypeOK
<1> QED
  BY <1>1 DEF Operation, NoOp

-----------------------------------------------------------------------------
(* The lock *)

\* Data once loaded stays while a call of the process runs.
LEMMA DataStays ==
    ASSUME TypeOK, HasData, [Next]_vars
    PROVE  HasData'
<1>a. ProcOf \in [Calls -> Procs] /\ \A f \in Settings : f # NoData
  BY UserSettingsAssumption DEF UserSettingsAssumption, Settings
<1>1. ASSUME NEW c \in Calls, Write(c) PROVE HasData'
  BY <1>1, <1>a, DataTypes DEF Write, Goto, TypeOK, HasData, Data
<1>2. ASSUME NEW c \in Calls, Get(c) \/ LoadToSave(c) PROVE HasData'
  <2>1. /\ \A d \in Calls : pc'[d] = "fill" => pc[d] = "fill"
        /\ data' = [data EXCEPT ![ProcOf[c]] = Loaded(c)]
    BY <1>2 DEF Get, LoadToSave, Load, Goto, TypeOK
  <2>2. Data(c) # NoData => Loaded(c) = Data(c)
    BY DEF Loaded
  <2> QED
    BY <2>1, <2>2, <1>a DEF HasData, Data, TypeOK
<1>3. ASSUME NEW c \in Calls, Remove(c) PROVE HasData'
  <2>1. \A d \in Calls : pc'[d] = "fill" => pc[d] = "fill"
    BY <1>3 DEF Remove, Goto, TypeOK
  <2>2. CASE Loaded(c) = NoData
    BY <1>3, <2>1, <2>2 DEF Remove, HasData, Data
  <2>3. CASE Loaded(c) # NoData
    <3>1. Loaded(c) \in Settings /\ op[c].key \in Keys
      BY <1>3, <2>3, DataTypes, OperationKeys DEF Remove
    <3>2. [Loaded(c) EXCEPT ![op[c].key] = None] # NoData
      BY <3>1, <1>a DEF Settings
    <3> QED
      BY <1>3, <1>a, <2>1, <2>3, <3>2 DEF Remove, HasData, Data, TypeOK
  <2> QED
    BY <2>2, <2>3
<1>4. ASSUME NEW c \in Calls, Call(c) \/ Lock(c) \/ LockStale(c) \/ LockFails(c)
                              \/ Fill(c) \/ Unlock(c)
      PROVE HasData'
  BY <1>4 DEF Call, Lock, LockStale, LockFails, Fill, Unlock, Goto, TypeOK, HasData, Data
<1>5. ASSUME NEW p \in Procs, Exit(p) \/ Crash(p) PROVE HasData'
  BY <1>5, <1>a DEF Exit, Crash, Fresh, CallsOf, calls, TypeOK, HasData, Data
<1>6. CASE UNCHANGED vars
  BY <1>6 DEF vars, calls, HasData, Data
<1> QED
  BY <1>1, <1>2, <1>3, <1>4, <1>5, <1>6 DEF Next, AsksForLock, Works

LEMMA LockInit == Init => LockInv
<1> SUFFICES ASSUME Init PROVE LockInv
  OBVIOUS
<1>1. TypeOK
  <2>1. Empty \in Settings
    BY DEF Empty, Settings
  <2>2. crashes \in 0 .. MaxCrashes
    BY UserSettingsAssumption DEF Init, UserSettingsAssumption
  <2>3. /\ file \in Settings \cup {Missing, Null, Torn}
        /\ data \in [Procs -> Settings \cup {NoData}]
        /\ own \in [Procs -> Settings]
    BY <2>1 DEF Init
  <2>4. /\ lock \in Calls \cup {None, Orphan} /\ opened \in SUBSET Calls
        /\ pc \in [Calls -> {"idle", "wait", "leave"} \cup InFile]
        /\ seized \in BOOLEAN /\ lastWriter \in Procs \cup {None}
    BY DEF Init
  <2>5. op \in [Calls -> Operation \cup {NoOp}] /\ depth \in [Calls -> 0 .. 2]
    BY DEF Init
  <2> QED
    BY <2>2, <2>3, <2>4, <2>5 DEF TypeOK
<1>2. LockHeld /\ Depths /\ HasData /\ LockIsReleased
  BY UserSettingsAssumption DEF Init, LockHeld, Depths, HasData, LockIsReleased, Holds, InFile,
     UserSettingsAssumption, NoOp
<1> QED
  BY <1>1, <1>2 DEF LockInv

LEMMA LockStep == LockInv /\ [Next]_vars => LockInv'
<1> SUFFICES ASSUME LockInv, [Next]_vars PROVE LockInv'
  OBVIOUS
<1> USE DEF LockInv
<1>a. /\ None \notin Calls /\ Orphan \notin Calls /\ MaxCrashes \in Nat
      /\ None \notin Procs /\ None \notin Values /\ Orphan # None
  BY UserSettingsAssumption DEF UserSettingsAssumption
<1>0. HasData'
  BY DataStays
<1>1. ASSUME NEW c \in Calls, Call(c) PROVE LockInv'
  <2>1. TypeOK'
    BY <1>1 DEF Call, TypeOK, Goto, disk, history
  <2>2. LockHeld' /\ Depths' /\ LockIsReleased'
    BY <1>1 DEF Call, TypeOK, Goto, disk, history, LockHeld, Depths, LockIsReleased,
       Holds, InFile
  <2> QED
    BY <1>0, <2>1, <2>2
<1>2. ASSUME NEW c \in Calls, Lock(c) \/ LockStale(c) PROVE LockInv'
  <2>1. TypeOK'
    BY <1>2 DEF Lock, LockStale, TypeOK, Goto, disk, history, InFile
  <2>2. LockHeld' /\ Depths' /\ LockIsReleased'
    BY <1>2, <1>a DEF Lock, LockStale, TypeOK, Goto, disk, history, LockHeld, Depths,
       LockIsReleased, Holds, InFile
  <2> QED
    BY <1>0, <2>1, <2>2
<1>3. ASSUME NEW c \in Calls, LockFails(c) PROVE LockInv'
  <2>1. TypeOK'
    BY <1>3 DEF LockFails, TypeOK, Goto, disk, history, InFile
  <2>2. LockHeld' /\ Depths' /\ LockIsReleased'
    BY <1>3, <1>a DEF LockFails, TypeOK, Goto, disk, history, LockHeld, Depths,
       LockIsReleased, Holds, InFile
  <2> QED
    BY <1>0, <2>1, <2>2
<1>4. ASSUME NEW c \in Calls, Get(c) \/ LoadToSave(c) PROVE LockInv'
  <2>1. TypeOK'
    BY <1>4, DataTypes DEF Get, LoadToSave, Load, LoadFile, TypeOK, Goto, history, InFile
  <2>2. LockHeld' /\ Depths' /\ LockIsReleased'
    BY <1>4 DEF Get, LoadToSave, TypeOK, Goto, history, LockHeld, Depths,
       LockIsReleased, Holds, InFile
  <2> QED
    BY <1>0, <2>1, <2>2
<1>5. ASSUME NEW c \in Calls, Remove(c) PROVE LockInv'
  <2>1. TypeOK'
    <3>1. op[c].key \in Keys
      BY <1>5, OperationKeys DEF Remove
    <3>2. file' \in Settings \cup {Missing, Null, Torn} /\ opened' \in SUBSET Calls
      BY <1>5, DataTypes DEF Remove, LoadFile, TypeOK
    <3>3. data' \in [Procs -> Settings \cup {NoData}] /\ own' \in [Procs -> Settings]
      <4>1. CASE Loaded(c) = NoData
        BY <1>5, <4>1 DEF Remove, TypeOK
      <4>2. CASE Loaded(c) # NoData
        <5>1. Loaded(c) \in Settings /\ own[ProcOf[c]] \in Settings /\ ProcOf[c] \in Procs
          BY <4>2, DataTypes DEF TypeOK
        <5>2. /\ [Loaded(c) EXCEPT ![op[c].key] = None] \in Settings
              /\ [own[ProcOf[c]] EXCEPT ![op[c].key] = None] \in Settings
          BY <5>1, <3>1 DEF Settings
        <5> QED
          BY <1>5, <4>2, <5>1, <5>2 DEF Remove, TypeOK
      <4> QED
        BY <4>1, <4>2
    <3> QED
      BY <1>5, <3>2, <3>3 DEF Remove, TypeOK, Goto, InFile
  <2>2. LockHeld' /\ Depths' /\ LockIsReleased'
    BY <1>5 DEF Remove, TypeOK, Goto, LockHeld, Depths, LockIsReleased, Holds, InFile
  <2> QED
    BY <1>0, <2>1, <2>2
<1>6. ASSUME NEW c \in Calls, Write(c) PROVE LockInv'
  <2>1. TypeOK'
    BY <1>6, DataTypes DEF Write, TypeOK, Goto, InFile
  <2>2. LockHeld' /\ Depths' /\ LockIsReleased'
    BY <1>6 DEF Write, TypeOK, Goto, LockHeld, Depths, LockIsReleased, Holds, InFile
  <2> QED
    BY <1>0, <2>1, <2>2
<1>7. ASSUME NEW c \in Calls, Fill(c) PROVE LockInv'
  <2>1. TypeOK'
    <3>1. file' \in Settings \cup {Missing, Null, Torn}
      BY <1>7, DataTypes DEF Fill, HasData, TypeOK
    <3>2. own' \in [Procs -> Settings]
      <4>1. CASE op[c].kind = "save" /\ ~seized
        <5>1. op[c].key \in Keys /\ op[c].value \in Values
          BY <4>1, SavedValue
        <5>2. own[ProcOf[c]] \in Settings /\ ProcOf[c] \in Procs
          BY DataTypes DEF TypeOK
        <5>3. [own[ProcOf[c]] EXCEPT ![op[c].key] = op[c].value] \in Settings
          BY <5>1, <5>2 DEF Settings
        <5> QED
          BY <1>7, <4>1, <5>2, <5>3 DEF Fill, Record, TypeOK
      <4>2. CASE op[c].kind # "save" \/ seized
        BY <1>7, <4>2 DEF Fill, Record, TypeOK
      <4> QED
        BY <4>1, <4>2
    <3>3. lastWriter' \in Procs \cup {None}
      BY <1>7, DataTypes DEF Fill, Record
    <3> QED
      BY <1>7, <3>1, <3>2, <3>3 DEF Fill, TypeOK, Goto, InFile
  <2>2. LockHeld' /\ Depths' /\ LockIsReleased'
    BY <1>7 DEF Fill, Record, TypeOK, Goto, LockHeld, Depths, LockIsReleased, Holds, InFile
  <2> QED
    BY <1>0, <2>1, <2>2
<1>8. ASSUME NEW c \in Calls, Unlock(c) PROVE LockInv'
  <2>1. TypeOK'
    BY <1>8, DataTypes DEF Unlock, Unlink, TypeOK, Goto, Depths
  <2>2. LockHeld' /\ Depths' /\ LockIsReleased'
    <3>1. LockIsReleased'
      BY <1>8, <1>a DEF Unlock, Unlink, LockIsReleased
    <3>2. ASSUME ~seized', NEW d \in Calls, Holds(d)' PROVE FALSE
      <4>1. d # c
        BY <1>8, <3>2 DEF Unlock, Goto, TypeOK, Holds, InFile
      <4>2. Holds(d)
        BY <1>8, <3>2, <4>1 DEF Unlock, Goto, TypeOK, Holds
      <4>3. lock = d
        BY <1>8, <3>2, <4>2 DEF Unlock, Unlink, LockHeld
      <4> QED
        BY <1>8, <3>2, <4>1, <4>3 DEF Unlock, Unlink
    <3>3. Depths'
      <4>1. depth[c] \in {1, 2}
        BY <1>8 DEF Unlock, Depths
      <4>2. \A d \in Calls \ {c} : pc'[d] = pc[d] /\ depth'[d] = depth[d] /\ op'[d] = op[d]
        BY <1>8 DEF Unlock, Goto, TypeOK
      <4>3. CASE depth[c] = 2
        BY <1>8, <4>2, <4>3 DEF Unlock, Unlink, TypeOK, Depths, InFile
      <4>4. CASE depth[c] = 1
        BY <1>8, <4>2, <4>4 DEF Unlock, Unlink, Goto, TypeOK, Depths, InFile
      <4> QED
        BY <4>1, <4>3, <4>4
    <3> QED
      BY <3>1, <3>2, <3>3 DEF LockHeld
  <2> QED
    BY <1>0, <2>1, <2>2
<1>9. ASSUME NEW p \in Procs, Exit(p) PROVE LockInv'
  BY <1>0, <1>9 DEF Exit, Fresh, TypeOK, disk, calls, LockHeld, Depths, LockIsReleased, Holds,
     Empty, Settings
<1>10. ASSUME NEW p \in Procs, Crash(p) PROVE LockInv'
  <2>1. TypeOK'
    BY <1>10, <1>a DEF Crash, Fresh, TypeOK, Empty, Settings, InFile, CallsOf
  <2>2. LockHeld' /\ Depths' /\ LockIsReleased'
    BY <1>10, <1>a DEF Crash, TypeOK, CallsOf, LockHeld, Depths, LockIsReleased, Holds,
       InFile, NoOp
  <2> QED
    BY <1>0, <2>1, <2>2
<1>11. CASE UNCHANGED vars
  BY <1>0, <1>11 DEF vars, disk, calls, history, TypeOK, LockHeld, Depths, LockIsReleased, Holds
<1> QED
  BY <1>1, <1>2, <1>3, <1>4, <1>5, <1>6, <1>7, <1>8, <1>9, <1>10, <1>11
  DEF Next, AsksForLock, Works

-----------------------------------------------------------------------------
(* What the writer knows *)

\* Until a lock is seized, a call that works on the file is alone there.
LEMMA Alone ==
    ASSUME LockInv, ~seized, NEW c \in Calls, pc[c] \in InFile
    PROVE  \A d \in Calls \ {c} : pc[d] \notin InFile
  BY DEF LockInv, LockHeld, Holds

LEMMA SeizedForGood == [Next]_vars /\ ~seized' => ~seized
<1> SUFFICES ASSUME [Next]_vars, ~seized' PROVE ~seized
  OBVIOUS
<1>1. ASSUME NEW c \in Calls, Call(c) \/ AsksForLock(c) PROVE ~seized
  BY <1>1 DEF Call, AsksForLock, Lock, LockStale, LockFails, history
<1>2. ASSUME NEW c \in Calls, Works(c) PROVE ~seized
  BY <1>2 DEF Works, Get, LoadToSave, Remove, Write, Fill, Unlock, Unlink, history
<1>3. ASSUME NEW p \in Procs, Exit(p) \/ Crash(p) PROVE ~seized
  BY <1>3 DEF Exit, Crash
<1> QED
  BY <1>1, <1>2, <1>3 DEF Next, vars, history

\* Steps that leave the file, the data and what is known of them alone, and
\* begin and end no writing.
LEMMA ElsewhereStep ==
    ASSUME WriterInv, ~seized,
           UNCHANGED <<file, opened, data, lastWriter, own>>,
           \A d \in Calls : pc'[d] = "fill" <=> pc[d] = "fill",
           \A d \in Calls : pc[d] = "fill" => op'[d] = op[d]
    PROVE  WriterInv'
<1>1. Filling'
  BY DEF WriterInv, Filling, Data
<1>2. OwnIsKnown'
  BY DEF WriterInv, OwnIsKnown, Replaces
<1>3. LastWriterPrevails'
  BY DEF WriterInv, LastWriterPrevails
<1> QED
  BY <1>1, <1>2, <1>3 DEF WriterInv

\* Loading changes nothing a process knows of what it saved, and deletes no
\* settings.
LEMMA LoadKeeps ==
    ASSUME LockInv, WriterInv, ~seized, NEW c \in Calls, pc[c] = "load"
    PROVE  /\ \A k \in Keys : own[ProcOf[c]][k] # None =>
                 Loaded(c) # NoData /\ Loaded(c)[k] = own[ProcOf[c]][k]
           /\ lastWriter # None => FileAfterLoad(c) = file
           /\ \A d \in Calls : pc[d] # "fill"
<1>1. \A d \in Calls : pc[d] # "fill"
  BY Alone DEF InFile
<1>2. ASSUME NEW k \in Keys, own[ProcOf[c]][k] # None
      PROVE  Loaded(c) # NoData /\ Loaded(c)[k] = own[ProcOf[c]][k]
  <2>1. ProcOf[c] \in Procs
    BY DataTypes DEF LockInv
  <2>2. Data(c) # NoData /\ Data(c)[k] = own[ProcOf[c]][k]
    BY <1>1, <1>2, <2>1 DEF WriterInv, OwnIsKnown, Replaces, Data
  <2> QED
    BY <2>2 DEF Loaded
<1>3. lastWriter # None => FileAfterLoad(c) = file
  BY UserSettingsAssumption DEF WriterInv, LastWriterPrevails, FileAfterLoad,
     UserSettingsAssumption, Settings
<1> QED
  BY <1>1, <1>2, <1>3

LEMMA WriterStep == LockInv /\ LockInv' /\ WriterInv /\ [Next]_vars => WriterInv'
<1> SUFFICES ASSUME LockInv, LockInv', WriterInv, [Next]_vars PROVE WriterInv'
  OBVIOUS
<1>a. CASE seized'
  BY <1>a DEF WriterInv, Filling, OwnIsKnown, LastWriterPrevails
<1>b. CASE ~seized'
  <2>a. ~seized
    BY <1>b, SeizedForGood
  <2>b. TypeOK /\ ProcOf \in [Calls -> Procs] /\ \A f \in Settings : f # NoData
    BY UserSettingsAssumption DEF UserSettingsAssumption, Settings, LockInv
  <2>1. ASSUME NEW c \in Calls, Call(c) \/ AsksForLock(c) \/ Unlock(c) PROVE WriterInv'
    BY <1>b, <2>a, <2>b, <2>1, ElsewhereStep DEF Call, AsksForLock, Lock, LockStale,
       LockFails, Unlock, Unlink, Goto, TypeOK, disk, history
  <2>2. ASSUME NEW c \in Calls, Get(c) \/ LoadToSave(c) PROVE WriterInv'
    <3>1. /\ pc[c] = "load" /\ Load(c) /\ UNCHANGED <<op, lastWriter, own>>
          /\ \A d \in Calls : pc'[d] = "fill" => pc[d] = "fill"
      BY <2>2, <2>b DEF Get, LoadToSave, Goto, TypeOK, history
    <3>2. Filling'
      BY <2>a, <3>1, LoadKeeps DEF Filling
    <3>3. OwnIsKnown'
      <4> SUFFICES ASSUME NEW p \in Procs, NEW k \in Keys, own[p][k] # None
                   PROVE  data'[p] # NoData /\ data'[p][k] = own[p][k]
        BY <3>1 DEF OwnIsKnown
      <4>1. CASE p = ProcOf[c]
        BY <2>a, <2>b, <3>1, <4>1, LoadKeeps DEF Load, TypeOK
      <4>2. CASE p # ProcOf[c]
        BY <2>a, <2>b, <3>1, <4>2, LoadKeeps DEF Load, TypeOK, WriterInv, OwnIsKnown, Replaces
      <4> QED
        BY <4>1, <4>2
    <3>4. LastWriterPrevails'
      BY <2>a, <3>1, LoadKeeps DEF Load, LoadFile, WriterInv, LastWriterPrevails
    <3> QED
      BY <3>2, <3>3, <3>4 DEF WriterInv
  <2>3. ASSUME NEW c \in Calls, Remove(c) PROVE WriterInv'
    <3> DEFINE key == op[c].key
    <3>1. /\ pc[c] = "load" /\ LoadFile(c) /\ UNCHANGED <<op, lastWriter>>
          /\ \A d \in Calls : pc'[d] = "fill" => pc[d] = "fill"
      BY <2>3, <2>b DEF Remove, Goto, TypeOK
    <3>2. key \in Keys /\ Loaded(c) \in Settings \cup {NoData}
      BY <2>3, <2>b, OperationKeys, DataTypes DEF Remove
    <3>3. \A p \in Procs, k \in Keys : own'[p][k] # None =>
              own'[p][k] = own[p][k] /\ (p = ProcOf[c] /\ Loaded(c) # NoData => k # key)
      BY <2>3, <2>b, <3>2 DEF Remove, TypeOK, Settings
    <3>4. Filling'
      BY <2>a, <3>1, LoadKeeps DEF Filling
    <3>5. OwnIsKnown'
      <4> SUFFICES ASSUME NEW p \in Procs, NEW k \in Keys, own'[p][k] # None
                   PROVE  data'[p] # NoData /\ data'[p][k] = own'[p][k]
        BY DEF OwnIsKnown
      <4>0. own[p][k] # None /\ own'[p][k] = own[p][k]
        BY <3>3
      <4>1. CASE p = ProcOf[c]
        <5>1. Loaded(c) # NoData /\ Loaded(c)[k] = own[p][k] /\ k # key
          BY <2>a, <3>1, <3>3, <4>0, <4>1, LoadKeeps
        <5>2. data'[p] = [Loaded(c) EXCEPT ![key] = None]
          BY <2>3, <2>b, <4>1, <5>1 DEF Remove, TypeOK
        <5> QED
          BY <2>b, <3>2, <4>0, <5>1, <5>2 DEF Settings
      <4>2. CASE p # ProcOf[c]
        <5>1. data'[p] = data[p]
          BY <2>3, <2>b, <4>2 DEF Remove, TypeOK
        <5> QED
          BY <2>a, <3>1, <4>0, <5>1, LoadKeeps DEF WriterInv, OwnIsKnown, Replaces
      <4> QED
        BY <4>1, <4>2
    <3>6. LastWriterPrevails'
      BY <2>a, <2>b, <3>1, <3>3, LoadKeeps DEF LoadFile, WriterInv, LastWriterPrevails, TypeOK
    <3> QED
      BY <3>4, <3>5, <3>6 DEF WriterInv
  <2>4. ASSUME NEW c \in Calls, Write(c) PROVE WriterInv'
    <3>1. \A d \in Calls : pc[d] # "fill" /\ (pc'[d] = "fill" => d = c)
      BY <2>4, <2>a, <2>b, Alone DEF Write, Goto, TypeOK, InFile
    <3>2. Merged(c) \in Settings /\ Data(c)' = Merged(c)
      BY <2>4, <2>b, DataTypes DEF Write, Data, TypeOK
    <3>3. op[c].kind = "save" => op[c].key \in Keys /\ Merged(c)[op[c].key] = op[c].value
      <4> SUFFICES ASSUME op[c].kind = "save"
                   PROVE  op[c].key \in Keys /\ Merged(c)[op[c].key] = op[c].value
        OBVIOUS
      <4> DEFINE known == IF Data(c) = NoData THEN Empty ELSE Data(c)
      <4>1. known \in Settings /\ op[c].key \in Keys
        BY <2>b, DataTypes, SavedValue
      <4>2. Merged(c) = [known EXCEPT ![op[c].key] = op[c].value]
        BY DEF Merged
      <4> QED
        BY <4>1, <4>2 DEF Settings
    <3>4. Filling'
      BY <2>4, <3>1, <3>2, <3>3 DEF Filling, Write
    <3>5. OwnIsKnown'
      <4> SUFFICES ASSUME NEW p \in Procs, NEW k \in Keys, own[p][k] # None
                   PROVE  /\ data'[p] # NoData
                          /\ data'[p][k] = own[p][k] \/ \E d \in Calls : Replaces(d, p, k)'
        BY <2>4 DEF OwnIsKnown, Write
      <4>0. data[p] # NoData /\ data[p][k] = own[p][k]
        BY <2>a, <3>1 DEF WriterInv, OwnIsKnown, Replaces
      <4>1. CASE p # ProcOf[c]
        BY <2>4, <2>b, <4>0, <4>1 DEF Write, TypeOK
      <4>2. CASE p = ProcOf[c] /\ op[c].kind = "save" /\ op[c].key = k
        BY <2>4, <2>b, <3>2, <4>2 DEF Write, Replaces, Goto, TypeOK, Data
      <4>3. CASE p = ProcOf[c] /\ ~(op[c].kind = "save" /\ op[c].key = k)
        <5>1. Data(c) \in Settings /\ Data(c)[k] = own[p][k]
          BY <2>b, <4>0, <4>3, DataTypes DEF Data
        <5>2. Merged(c)[k] = Data(c)[k]
          BY <2>b, <3>3, <4>3, <5>1 DEF Merged, Settings
        <5> QED
          BY <2>b, <3>2, <4>3, <5>1, <5>2 DEF Data
      <4> QED
        BY <4>1, <4>2, <4>3
    <3>6. LastWriterPrevails'
      BY <2>4 DEF Write, LastWriterPrevails
    <3> QED
      BY <3>4, <3>5, <3>6 DEF WriterInv
  <2>5. ASSUME NEW c \in Calls, Fill(c) PROVE WriterInv'
    <3>1. \A d \in Calls : pc'[d] # "fill" /\ (pc[d] = "fill" => d = c)
      BY <2>5, <2>a, <2>b, Alone DEF Fill, Goto, TypeOK, InFile
    <3>2. /\ file' = Data(c) /\ Data(c) \in Settings /\ lastWriter' = ProcOf[c]
          /\ UNCHANGED <<data, op>>
      BY <2>5, <2>a, <2>b, DataTypes DEF Fill, Record, LockInv, HasData, WriterInv, Filling
    <3>3. ASSUME NEW p \in Procs, NEW k \in Keys, own'[p][k] # None
          PROVE  data[p] # NoData /\ data[p][k] = own'[p][k]
      <4>1. CASE p = ProcOf[c] /\ op[c].kind = "save" /\ op[c].key = k
        <5>1. own'[p][k] = op[c].value
          BY <2>5, <2>a, <2>b, <4>1 DEF Fill, Record, TypeOK, Settings
        <5>2. Data(c)[k] = op[c].value
          BY <2>5, <2>a, <4>1 DEF Fill, WriterInv, Filling
        <5> QED
          BY <2>b, <3>2, <4>1, <5>1, <5>2 DEF Data
      <4>2. CASE ~(p = ProcOf[c] /\ op[c].kind = "save" /\ op[c].key = k)
        <5>1. own'[p][k] = own[p][k]
          BY <2>5, <2>a, <2>b, <4>2 DEF Fill, Record, TypeOK, Settings
        <5> QED
          BY <2>a, <3>1, <3>3, <4>2, <5>1 DEF WriterInv, OwnIsKnown, Replaces
      <4> QED
        BY <4>1, <4>2
    <3>4. Filling'
      BY <3>1 DEF Filling
    <3>5. OwnIsKnown'
      BY <3>2, <3>3 DEF OwnIsKnown
    <3>6. LastWriterPrevails'
      BY <2>b, <3>2, <3>3 DEF LastWriterPrevails, Data
    <3> QED
      BY <3>4, <3>5, <3>6 DEF WriterInv
  <2>6. ASSUME NEW p \in Procs, Exit(p) \/ Crash(p) PROVE WriterInv'
    <3>1. /\ UNCHANGED <<file, lastWriter>>
          /\ data' = [data EXCEPT ![p] = NoData] /\ own' = [own EXCEPT ![p] = Empty]
      BY <2>6 DEF Exit, Crash, Fresh, disk
    <3>2. ASSUME NEW d \in Calls
          PROVE  /\ pc'[d] = "fill" => pc[d] = "fill" /\ (d \in opened => d \in opened')
                 /\ pc[d] = "fill" /\ ProcOf[d] # p => pc'[d] = "fill"
                 /\ pc'[d] = "fill" => ProcOf[d] # p /\ op'[d] = op[d]
                 /\ ProcOf[d] # p => op'[d] = op[d]
      BY <2>6, <2>b DEF Exit, Crash, CallsOf, calls, disk, TypeOK
    <3>3. \A q \in Procs, k \in Keys : own'[q][k] # None => q # p /\ own'[q] = own[q]
      BY <3>1, <2>b DEF TypeOK, Empty
    <3>4. Filling'
      BY <2>a, <2>b, <3>1, <3>2 DEF WriterInv, Filling, Data, TypeOK
    <3>5. OwnIsKnown'
      BY <2>a, <2>b, <3>1, <3>2, <3>3 DEF WriterInv, OwnIsKnown, Replaces, TypeOK
    <3>6. LastWriterPrevails'
      BY <2>a, <2>b, <3>1, <3>3 DEF WriterInv, LastWriterPrevails, TypeOK
    <3> QED
      BY <3>4, <3>5, <3>6 DEF WriterInv
  <2>7. CASE UNCHANGED vars
    BY <2>a, <2>7, ElsewhereStep DEF vars, disk, calls, history
  <2> QED
    BY <2>1, <2>2, <2>3, <2>4, <2>5, <2>6, <2>7 DEF Next, Works
<1> QED
  BY <1>a, <1>b

LEMMA TornStep ==
    ASSUME LockInv, WriterInv, TornIsWritten, [Next]_vars
    PROVE  TornIsWritten'
<1> SUFFICES ASSUME file' = Torn, ~seized', crashes' = 0
             PROVE  \E c \in Calls : pc'[c] = "fill"
  BY DEF TornIsWritten
<1>a. ~seized /\ TypeOK /\ \A f \in Settings : f # Torn
  BY SeizedForGood, UserSettingsAssumption DEF LockInv, UserSettingsAssumption, Settings
<1>1. ASSUME NEW c \in Calls, Call(c) \/ AsksForLock(c) \/ Unlock(c)
      PROVE  \E d \in Calls : pc'[d] = "fill"
  BY <1>a, <1>1 DEF Call, AsksForLock, Lock, LockStale, LockFails, Unlock, Goto, TypeOK,
     disk, history, TornIsWritten
<1>2. ASSUME NEW c \in Calls, Get(c) \/ LoadToSave(c) \/ Remove(c)
      PROVE  \E d \in Calls : pc'[d] = "fill"
  <2>1. pc[c] = "load" /\ file' = FileAfterLoad(c) /\ crashes' = crashes
    BY <1>2 DEF Get, LoadToSave, Remove, Load, LoadFile, history
  <2>2. file = Torn
    BY <2>1, UserSettingsAssumption DEF FileAfterLoad, UserSettingsAssumption
  <2>3. \A d \in Calls : pc[d] # "fill"
    BY <1>a, <2>1, LoadKeeps
  <2> QED
    BY <1>a, <2>1, <2>2, <2>3 DEF TornIsWritten
<1>3. ASSUME NEW c \in Calls, Write(c) PROVE \E d \in Calls : pc'[d] = "fill"
  BY <1>a, <1>3 DEF Write, Goto, TypeOK
<1>4. ASSUME NEW c \in Calls, Fill(c) PROVE FALSE
  BY <1>a, <1>4, DataTypes DEF Fill, LockInv, HasData, WriterInv, Filling
<1>5. ASSUME NEW p \in Procs, Exit(p) PROVE \E d \in Calls : pc'[d] = "fill"
  BY <1>a, <1>5 DEF Exit, disk, calls, TornIsWritten
<1>6. ASSUME NEW p \in Procs, Crash(p) PROVE FALSE
  <2>1. crashes \in Nat
    BY <1>a, UserSettingsAssumption DEF TypeOK, UserSettingsAssumption
  <2> QED
    BY <1>6, <2>1 DEF Crash
<1>7. CASE UNCHANGED vars
  BY <1>a, <1>7 DEF vars, disk, calls, history, TornIsWritten
<1> QED
  BY <1>1, <1>2, <1>3, <1>4, <1>5, <1>6, <1>7 DEF Next, Works

-----------------------------------------------------------------------------
(* The theorems *)

\* The invariant holds from the start.
LEMMA InvInit == Init => IInv
<1> SUFFICES ASSUME Init PROVE IInv
  OBVIOUS
<1>1. LockInv
  BY LockInit
<1>2. WriterInv
  BY DEF Init, WriterInv, Filling, OwnIsKnown, LastWriterPrevails, Empty
<1>3. file # Torn
  BY UserSettingsAssumption DEF Init, UserSettingsAssumption, Empty
<1> QED
  BY <1>1, <1>2, <1>3 DEF IInv, TornIsWritten

THEOREM SettingsInvariant == Spec => []IInv
<1>1. IInv /\ [Next]_vars => IInv'
  BY LockStep, WriterStep, TornStep DEF IInv
<1> QED
  BY InvInit, <1>1, PTL DEF Spec

\* Every variable keeps its type, for any processes, calls and settings.
THEOREM SettingsTypeCorrect == Spec => []TypeOK
<1>1. IInv => TypeOK
  BY DEF IInv, LockInv
<1> QED
  BY SettingsInvariant, <1>1, PTL

\* At most one call works on the settings file until a lock is seized.
THEOREM ExclusionHolds == Spec => []Exclusion
<1>1. IInv => Exclusion
  BY Alone DEF IInv, Exclusion
<1> QED
  BY SettingsInvariant, <1>1, PTL

\* What the process that wrote last saved and did not remove is in the file.
THEOREM LastWriterHolds == Spec => []LastWriterPrevails
<1>1. IInv => LastWriterPrevails
  BY DEF IInv, WriterInv
<1> QED
  BY SettingsInvariant, <1>1, PTL

\* No call that ended leaves its lock file.
THEOREM LockReleased == Spec => []LockIsReleased
<1>1. IInv => LockIsReleased
  BY DEF IInv, LockInv
<1> QED
  BY SettingsInvariant, <1>1, PTL

\* A removal writes only after its lock was seized.
THEOREM RemovalHolds == Spec => []RemovalNeedsSeizure
<1>1. IInv => RemovalNeedsSeizure
  BY DEF IInv, LockInv, Depths, RemovalNeedsSeizure, InFile
<1> QED
  BY SettingsInvariant, <1>1, PTL

\* The settings are deleted only after a kill or a seizure.
THEOREM DeletionHolds == Spec => DeletedOnlyAfterFailure
<1>1. IInv /\ [Next]_vars => [file # Missing /\ file' = Missing => crashes > 0 \/ seized]_vars
  <2> SUFFICES ASSUME IInv, [Next]_vars, file # Missing, file' = Missing, crashes = 0, ~seized
               PROVE  FALSE
    BY UserSettingsAssumption DEF IInv, LockInv, TypeOK, UserSettingsAssumption
  <2>a. TypeOK /\ \A f \in Settings : f # Missing
    BY UserSettingsAssumption DEF IInv, LockInv, UserSettingsAssumption, Settings
  <2>1. ASSUME NEW c \in Calls, Get(c) \/ LoadToSave(c) \/ Remove(c) PROVE FALSE
    <3>1. pc[c] = "load" /\ file' = FileAfterLoad(c)
      BY <2>1 DEF Get, LoadToSave, Remove, Load, LoadFile
    <3>2. file = Torn
      BY <3>1, UserSettingsAssumption DEF FileAfterLoad, UserSettingsAssumption
    <3>3. \A d \in Calls : pc[d] # "fill"
      BY <3>1, LoadKeeps DEF IInv
    <3> QED
      BY <3>2, <3>3 DEF IInv, TornIsWritten
  <2>2. ASSUME NEW c \in Calls, Write(c) \/ Fill(c) PROVE FALSE
    BY <2>2, <2>a, DataTypes, UserSettingsAssumption DEF Write, Fill, IInv, LockInv, HasData,
       UserSettingsAssumption
  <2>3. ASSUME NEW c \in Calls, Call(c) \/ AsksForLock(c) \/ Unlock(c) PROVE FALSE
    BY <2>3 DEF Call, AsksForLock, Lock, LockStale, LockFails, Unlock, disk
  <2>4. ASSUME NEW p \in Procs, Exit(p) \/ Crash(p) PROVE FALSE
    BY <2>4 DEF Exit, Crash, disk
  <2>5. ~UNCHANGED vars
    BY DEF vars, disk
  <2> QED
    BY <2>1, <2>2, <2>3, <2>4, <2>5 DEF Next, Works
<1> QED
  BY SettingsInvariant, <1>1, PTL DEF Spec, DeletedOnlyAfterFailure
=============================================================================
