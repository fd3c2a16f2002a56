------------------------ MODULE DevicesServiceProofs ------------------------
(***************************************************************************)
(* DevicesService for any devices, callers, options and numbers of calls:  *)
(* initialize implements SharedPromise, the first successful choice is the *)
(* one asked for, and execute covers its devices.                          *)
(*                                                                         *)
(* The invariant relates what the callers wait for, the initializeCore in  *)
(* flight and the first execution of the interval, and says how far        *)
(* _platform and _device have come before the first success or failure.    *)
(***************************************************************************)
EXTENDS DevicesService, TLAPS

EnvironmentOK ==
    /\ attached \subseteq Devices /\ registry \subseteq Devices
    /\ changes \in 0 .. MaxChanges /\ calls \in 0 .. MaxCalls
    /\ interval \in BOOLEAN \cup {None}
    /\ tick \in [state : {"none", "detecting", "updating"}, platform : Platforms \cup {None}]

ServiceOK ==
    /\ platform \in Platforms \cup {None}
    /\ device \in Devices \cup {None}
    /\ isInitialized \in BOOLEAN

\* One initializeCore is in flight while the promise is pending, which all who wait
\* share; it is the one the first execution of the interval resolves, if there is one.
SharingOK ==
    /\ promise \in {"none", "pending", "resolved"}
    /\ core \in [req : Requests, at : CoreAt] \cup {None}
    /\ core # None <=> promise = "pending"
    /\ pc \in [Callers -> {"idle", "waiting", "ok", "failed"}]
    /\ \A c \in Callers : pc[c] = "waiting" => promise = "pending"
    /\ {failed, first} \subseteq BOOLEAN
    /\ granted \in Requests \cup {None}
    /\ first <=> core # None /\ core.at = "firstTick"

\* Until an initialize fails, nothing is chosen before it is known to be what was asked
\* for, and nothing changes after the first success.
ChoiceOK ==
    ~failed =>
        /\ ~isInitialized =>
              /\ device = None
              /\ core = None => platform = None
              /\ core # None => platform = IF core.at = "begin" THEN None ELSE core.req.platform
        /\ isInitialized => promise = "resolved" /\ ChosenAsAsked

\* Each device of an execute has had its turn or waits for it, and it goes over the devices
\* that are wanted, or over others when none of those is there.
ExecuteOK ==
    /\ exec \in [todo : SUBSET Devices, targets : SUBSET Devices, errors : SUBSET Devices,
                 done : SUBSET Devices, wanted : SUBSET Devices,
                 state : {"none", "running", "succeeded", "threw", "skipped", "refused"}]
    /\ exec.wanted # {} => exec.wanted = exec.targets
    /\ exec.state \in {"skipped", "refused"} => exec.targets = {}
    /\ exec.done \cup exec.errors \cup exec.todo = exec.targets
    /\ exec.done \cap exec.errors = {} /\ exec.todo \cap (exec.done \cup exec.errors) = {}
    /\ exec.state \in {"succeeded", "threw"} => exec.todo = {} /\ (exec.state = "threw" <=> exec.errors # {})

DevicesIInv == EnvironmentOK /\ ServiceOK /\ SharingOK /\ ChoiceOK /\ ExecuteOK

-----------------------------------------------------------------------------
\* The invariant holds before anybody calls.
LEMMA DevicesInitIInv == Init => DevicesIInv
<1> SUFFICES ASSUME Init PROVE DevicesIInv
  OBVIOUS
<1>1. EnvironmentOK
  BY ServiceAssumption DEF Init, EnvironmentOK
<1>2. ServiceOK /\ SharingOK /\ ChoiceOK
  BY ServiceAssumption DEF Init, ServiceOK, SharingOK, ChoiceOK
<1>3. ExecuteOK
  BY DEF Init, NoExec, ExecuteOK
<1> QED
  BY <1>1, <1>2, <1>3 DEF DevicesIInv

\* Whatever discoveries answer, what they find are devices.
LEMMA DetectionsAreDevices ==
    ASSUME EnvironmentOK, NEW p, NEW e, NEW found \in Detections(p, e)
    PROVE  found \subseteq Devices
BY DEF EnvironmentOK, Detections, LooksFor

\* What initializeCore does with its options and the devices found settles its promise.
LEMMA ConcludeSettles ==
    ASSUME NEW r, NEW found, Conclude(r, found)
    PROVE  Reject \/ Resolve
BY DEF Conclude, ConcludeDevice, ConcludeInferred, ResolveFor

\* A rejection leaves no waiter, no initializeCore and no claim about the choice.
LEMMA RejectKeeps ==
    ASSUME SharingOK, Reject, first' = FALSE
    PROVE  SharingOK' /\ ChoiceOK'
<1>1. pc' \in [Callers -> {"idle", "waiting", "ok", "failed"}] /\ \A c \in Callers : pc'[c] # "waiting"
  BY DEF SharingOK, Reject, WaitersBecome
<1> QED
  BY <1>1 DEF SharingOK, ChoiceOK, Reject

\* A success keeps what is known of promise, callers and initializeCore.
LEMMA ResolveKeeps ==
    ASSUME SharingOK, core # None, Resolve, first' = FALSE
    PROVE  SharingOK'
<1>1. pc' \in [Callers -> {"idle", "waiting", "ok", "failed"}] /\ \A c \in Callers : pc'[c] # "waiting"
  BY DEF SharingOK, Resolve, WaitersBecome
<1> QED
  BY <1>1 DEF SharingOK, Resolve

\* The conclusion of an initializeCore that is past its beginning, or that was given no
\* platform, chooses what was asked for.
LEMMA ConcludeKeeps ==
    ASSUME ServiceOK, SharingOK, ChoiceOK, core # None, NEW found \in SUBSET Devices,
           Conclude(core.req, found), first' = FALSE,
           core.at = "begin" => core.req.platform = None
    PROVE  ServiceOK' /\ SharingOK' /\ ChoiceOK'
<1> DEFINE r == core.req
<1>r. r \in Requests /\ r \in Request
  BY ServiceAssumption DEF SharingOK
<1>t. r.platform \in Platforms \cup {None} /\ r.device \in Devices \cup {None}
  BY <1>r DEF Request
<1>1. ServiceOK'
  <2>1. isInitialized' \in BOOLEAN
    BY DEF Conclude, ConcludeDevice, ConcludeInferred, ResolveFor, Resolve, ServiceOK, serviceVars
  <2>2. device' \in Devices \cup {None}
    BY DEF Conclude, ConcludeDevice, ConcludeInferred, ServiceOK, serviceVars
  <2>3. platform' \in Platforms \cup {None}
    <3>1. \A d \in Devices : PlatformOf[d] \in Platforms
      BY ServiceAssumption
    <3> QED
      BY <3>1, <1>t DEF Conclude, ConcludeDevice, ConcludeInferred, ServiceOK, serviceVars
  <2> QED
    BY <2>1, <2>2, <2>3 DEF ServiceOK
<1>2. CASE Reject
  BY <1>1, <1>2, RejectKeeps
<1>3. CASE Resolve
  <2>1. SharingOK'
    BY <1>3, ResolveKeeps
  <2>2. ASSUME ~failed PROVE isInitialized' /\ promise' = "resolved" /\ ChosenAsAsked'
    <3>0. ~isInitialized
      BY <2>2 DEF ChoiceOK, SharingOK
    <3>1. device = None /\ platform = r.platform
      BY <2>2, <3>0 DEF ChoiceOK
    <3>2. granted' = r /\ isInitialized' /\ promise' = "resolved"
      BY <1>3 DEF Resolve
    <3>3. CASE r.device # None
      <4>1. /\ r.device \in found /\ device' = r.device
            /\ platform' = IF r.platform = None THEN PlatformOf[r.device] ELSE platform
            /\ PlatformOf[r.device] = platform'
        BY <3>3, <1>3 DEF Conclude, ConcludeDevice, Reject, Resolve
      <4> QED
        BY <3>1, <3>2, <4>1 DEF ChosenAsAsked
    <3>4. CASE r.device = None
      <4>1. device' = None /\ (r.platform # None => platform' = platform)
        BY <3>1, <3>4 DEF Conclude, ConcludeInferred
      <4> QED
        BY <3>1, <3>2, <3>4, <4>1 DEF ChosenAsAsked
    <3> QED
      BY <3>3, <3>4
  <2>3. ChoiceOK'
    BY <1>3, <2>2 DEF ChoiceOK, Resolve
  <2> QED
    BY <1>1, <2>1, <2>3
<1> QED
  BY <1>2, <1>3, ConcludeSettles

\* An initializeCore that goes on to its next await has set _platform to its option.
LEMMA MovesOn ==
    ASSUME ServiceOK, SharingOK, ChoiceOK, core # None, NEW at \in CoreAt \ {"begin"},
           core' = [req |-> core.req, at |-> at], first' = (at = "firstTick"),
           UNCHANGED <<device, isInitialized, promise, pc, failed, granted>>,
           platform' \in Platforms \cup {None},
           platform' = core.req.platform \/ (core.at # "begin" /\ platform' = platform) \/ failed
    PROVE  ServiceOK' /\ SharingOK' /\ ChoiceOK'
<1>1. core' \in [req : Requests, at : CoreAt] /\ core' # None /\ core'.at = at /\ core'.req = core.req
  BY ServiceAssumption DEF SharingOK
<1>2. SharingOK'
  BY <1>1 DEF SharingOK
<1>3. ServiceOK'
  BY DEF ServiceOK
<1>4. ChoiceOK'
  BY <1>1 DEF ChoiceOK, ChosenAsAsked, SharingOK
<1> QED
  BY <1>2, <1>3, <1>4

\* A step that leaves alone what initialize has to do with.
LEMMA ElsewhereKeeps ==
    ASSUME ServiceOK, SharingOK, ChoiceOK, UNCHANGED <<serviceVars, callVars, first>>
    PROVE  ServiceOK' /\ SharingOK' /\ ChoiceOK'
BY DEF ServiceOK, SharingOK, ChoiceOK, ChosenAsAsked, serviceVars, callVars

\* A call that joins, or that the kept promise answers.
LEMMA JoinKeeps ==
    ASSUME ServiceOK, SharingOK, ChoiceOK, NEW c \in Callers, JoinInitialize(c)
    PROVE  ServiceOK' /\ SharingOK' /\ ChoiceOK'
<1>1. ServiceOK' /\ ChoiceOK'
  BY DEF JoinInitialize, ServiceOK, ChoiceOK, ChosenAsAsked, serviceVars
<1>2. SharingOK'
  BY DEF JoinInitialize, SharingOK, serviceVars, intervalVars
<1> QED
  BY <1>1, <1>2

\* A call that starts initializeCore.
LEMMA StartKeeps ==
    ASSUME ServiceOK, SharingOK, ChoiceOK, NEW c \in Callers, NEW r \in Requests, StartInitialize(c, r)
    PROVE  ServiceOK' /\ SharingOK' /\ ChoiceOK'
<1> DEFINE at == IF MayStartEmulator(r) THEN "emulatorLook" ELSE "begin"
<1>0. r.platform \in Platforms \cup {None} /\ at \in CoreAt /\ at # "firstTick"
  BY ServiceAssumption DEF Request, CoreAt
<1>1. core' = [req |-> r, at |-> at] /\ core = None /\ promise' = "pending" /\ promise = "none"
  BY DEF StartInitialize, SharingOK
<1>2. core' \in [req : Requests, at : CoreAt] /\ core' # None /\ core'.at = at /\ core'.req = r
  BY <1>0, <1>1, ServiceAssumption
<1>3. UNCHANGED <<device, isInitialized, failed, granted, first>>
  BY DEF StartInitialize, intervalVars
<1>4. ~first
  BY <1>1 DEF SharingOK
<1>5. ServiceOK'
  BY <1>0, <1>3 DEF ServiceOK, StartInitialize
<1>6. SharingOK'
  BY <1>0, <1>1, <1>2, <1>3, <1>4 DEF SharingOK, StartInitialize
<1>7. ChoiceOK'
  BY <1>1, <1>2, <1>3 DEF ChoiceOK, StartInitialize, ServiceOK
<1> QED
  BY <1>5, <1>6, <1>7

\* initializeCore up to its first await, or to its end when the interval runs already.
LEMMA BeginKeeps ==
    ASSUME EnvironmentOK, ServiceOK, SharingOK, ChoiceOK, Begin
    PROVE  ServiceOK' /\ SharingOK' /\ ChoiceOK' /\ interval' \in BOOLEAN \cup {None} /\ tick' = tick
<1> DEFINE r == core.req
<1>r. r \in Requests /\ r.platform \in Platforms \cup {None} /\ r.emulator \in BOOLEAN
  BY ServiceAssumption DEF SharingOK, Begin, Request
<1>c. core # None /\ core.at = "begin" /\ ~first
  BY DEF Begin, SharingOK
<1>1. CASE Reject /\ UNCHANGED <<serviceVars, intervalVars>>
  BY <1>1, <1>c, RejectKeeps DEF intervalVars, serviceVars, ServiceOK, SharingOK, EnvironmentOK
<1>2. CASE BeginLook(r, registry)
  <2>0. (r.platform = None => platform = r.platform) \/ failed
    BY <1>c DEF ChoiceOK, SharingOK
  <2>1. CASE AwaitDetection(r) /\ platform' \in {platform, r.platform} /\ (r.platform # None => platform' = r.platform)
    <3>1. "look" \in CoreAt \ {"begin"} /\ (platform' = r.platform \/ failed)
      BY <2>0, <2>1 DEF CoreAt
    <3>2. core' = [req |-> r, at |-> "look"] /\ UNCHANGED <<first, interval, tick>>
          /\ UNCHANGED <<device, isInitialized, promise, pc, failed, granted>>
      BY <2>1 DEF AwaitDetection, intervalVars
    <3>3. platform' \in Platforms \cup {None}
      BY <1>r, <2>1 DEF ServiceOK
    <3>4. first' = ("look" = "firstTick")
      BY <1>c, <3>2 DEF SharingOK
    <3>5. ServiceOK' /\ SharingOK' /\ ChoiceOK'
      BY <1>c, <3>1, <3>2, <3>3, <3>4, MovesOn
    <3> QED
      BY <3>2, <3>5 DEF EnvironmentOK
  <2>2. CASE r.platform = None /\ AwaitInterval(r, registry) /\ interval = None
    <3>1. "firstTick" \in CoreAt \ {"begin"}
      BY DEF CoreAt
    <3>2. core' = [req |-> r, at |-> "firstTick"] /\ first' = TRUE /\ interval' = r.emulator /\ tick' = tick
          /\ UNCHANGED <<device, isInitialized, promise, pc, failed, granted, platform>>
      BY <2>2 DEF AwaitInterval, serviceVars
    <3>3. platform' \in Platforms \cup {None} /\ (platform' = r.platform \/ failed)
      BY <2>0, <2>2, <3>2 DEF ServiceOK
    <3>4. first' = ("firstTick" = "firstTick")
      BY <3>2
    <3>5. ServiceOK' /\ SharingOK' /\ ChoiceOK'
      BY <1>c, <3>1, <3>2, <3>3, <3>4, MovesOn
    <3> QED
      BY <1>r, <3>2, <3>5
  <2>3. CASE r.platform = None /\ AwaitInterval(r, registry) /\ interval # None
    <3>1. Conclude(r, registry) /\ UNCHANGED <<interval, tick, first>>
      BY <2>3 DEF AwaitInterval, intervalVars
    <3>2. first' = FALSE /\ registry \in SUBSET Devices
      BY <1>c, <3>1 DEF SharingOK, EnvironmentOK
    <3>3. ServiceOK' /\ SharingOK' /\ ChoiceOK'
      BY <1>c, <2>3, <3>1, <3>2, ConcludeKeeps
    <3> QED
      BY <3>1, <3>3 DEF EnvironmentOK
  <2>4. \/ AwaitDetection(r) /\ platform' \in {platform, r.platform} /\ (r.platform # None => platform' = r.platform)
        \/ r.platform = None /\ AwaitInterval(r, registry)
    BY <1>2 DEF BeginLook
  <2> QED
    BY <2>1, <2>2, <2>3, <2>4
<1> QED
  BY <1>1, <1>2 DEF Begin

\* The steps of startEmulatorIfNecessary and the awaited detection.
LEMMA CoreKeeps ==
    ASSUME EnvironmentOK, ServiceOK, SharingOK, ChoiceOK,
           EmulatorLook \/ EmulatorFailed \/ EmulatorStarted \/ EmulatorFind \/ Look
    PROVE  ServiceOK' /\ SharingOK' /\ ChoiceOK' /\ UNCHANGED <<interval, tick>>
           /\ attached' \subseteq Devices /\ registry' \subseteq Devices
<1>c. core # None /\ core.at \notin {"begin", "firstTick"} /\ ~first
  BY DEF EmulatorLook, EmulatorFailed, EmulatorStarted, EmulatorFind, Look, SharingOK
<1>i. UNCHANGED <<interval, tick, first>>
  BY DEF EmulatorLook, EmulatorFailed, EmulatorStarted, EmulatorFind, Look, intervalVars
<1>f. first' = FALSE
  BY <1>c, <1>i DEF SharingOK
<1>a. attached' \subseteq Devices
  <2>1. Emulators \subseteq Devices
    BY ServiceAssumption
  <2> QED
    BY <2>1 DEF EmulatorLook, EmulatorFailed, EmulatorStarted, EmulatorFind, Look, EnvironmentOK
<1>g. registry' \subseteq Devices
  <2>1. CASE EmulatorLook \/ Look
    BY <2>1, DetectionsAreDevices DEF EmulatorLook, Look
  <2>2. CASE EmulatorFailed \/ EmulatorStarted \/ EmulatorFind
    BY <2>2 DEF EmulatorFailed, EmulatorStarted, EmulatorFind, EnvironmentOK
  <2> QED
    BY <2>1, <2>2
<1>1. ASSUME Reject, UNCHANGED serviceVars PROVE ServiceOK' /\ SharingOK' /\ ChoiceOK'
  <2>1. ServiceOK'
    BY <1>1 DEF ServiceOK, serviceVars
  <2>2. SharingOK' /\ ChoiceOK'
    BY <1>1, <1>f, RejectKeeps
  <2> QED
    BY <2>1, <2>2
<1>2. ASSUME Look PROVE ServiceOK' /\ SharingOK' /\ ChoiceOK'
  <2>1. Conclude(core.req, registry') /\ registry' \in SUBSET Devices
    BY <1>2, <1>g DEF Look
  <2> QED
    BY <1>c, <1>f, <2>1, ConcludeKeeps
<1>3. ASSUME NEW at \in {"emulatorStart", "emulatorFind", "look"}, core' = [core EXCEPT !.at = at],
             UNCHANGED <<serviceVars, promise, pc, failed, granted>>
      PROVE  ServiceOK' /\ SharingOK' /\ ChoiceOK'
  <2>1. at \in CoreAt \ {"begin"} /\ core' = [req |-> core.req, at |-> at]
    BY <1>c, <1>3 DEF CoreAt, SharingOK
  <2>2. first' = (at = "firstTick") /\ UNCHANGED <<platform, device, isInitialized>>
    BY <1>3, <1>f DEF serviceVars
  <2> QED
    BY <1>c, <1>3, <2>1, <2>2, MovesOn DEF ServiceOK
<1>4. \/ Reject /\ UNCHANGED serviceVars
      \/ Look
      \/ \E at \in {"emulatorStart", "emulatorFind", "look"} :
            core' = [core EXCEPT !.at = at] /\ UNCHANGED <<serviceVars, promise, pc, failed, granted>>
  <2>1. CASE EmulatorLook
    BY <2>1 DEF EmulatorLook
  <2>2. CASE EmulatorFailed \/ EmulatorStarted \/ EmulatorFind \/ Look
    BY <2>2 DEF EmulatorFailed, EmulatorStarted, EmulatorFind
  <2> QED
    BY <2>1, <2>2
<1>5. ServiceOK' /\ SharingOK' /\ ChoiceOK'
  BY <1>1, <1>2, <1>3, <1>4
<1> QED
  BY <1>5, <1>a, <1>g, <1>i

\* The end of an execution of the interval: the first one concludes what waits for it.
LEMMA TickEndKeeps ==
    ASSUME EnvironmentOK, ServiceOK, SharingOK, ChoiceOK, TickEnd
    PROVE  ServiceOK' /\ SharingOK' /\ ChoiceOK'
<1>1. first' = FALSE
  BY DEF TickEnd
<1>2. CASE first /\ core # None
  <2>1. Conclude(core.req, registry) /\ core.at = "firstTick" /\ registry \in SUBSET Devices
    BY <1>2 DEF TickEnd, SharingOK, EnvironmentOK
  <2> QED
    BY <1>1, <1>2, <2>1, ConcludeKeeps
<1>3. CASE ~(first /\ core # None)
  <2>1. UNCHANGED <<serviceVars, callVars>> /\ first = FALSE
    BY <1>3 DEF TickEnd, SharingOK
  <2> QED
    BY <1>1, <2>1, ElsewhereKeeps
<1> QED
  BY <1>2, <1>3

\* With a device that is wanted, the targets are those wanted, and without devices none is.
LEMMA WantedAreTargets ==
    ASSUME ServiceOK, EnvironmentOK
    PROVE  /\ Wanted \subseteq Devices /\ Targets \subseteq Devices
           /\ Wanted # {} => Wanted = Targets
           /\ ~HasDevices => Wanted = {}
<1>1. FilteredDevices \subseteq registry /\ registry \subseteq Devices /\ device \in Devices \cup {None}
  BY DEF FilteredDevices, EnvironmentOK, ServiceOK
<1>2. ASSUME NEW d \in FilteredDevices PROVE CanExecute(d)
  <2>1. "ios" # None
    BY ServiceAssumption DEF Platforms
  <2> QED
    BY <1>2, <2>1 DEF FilteredDevices, CanExecute, OnSimulatorsOnly
<1>3. Wanted # {} => Wanted = Targets
  <2>1. CASE device = None
    BY <1>2, <2>1 DEF Wanted, Targets
  <2>2. CASE device # None
    BY <1>2, <2>2 DEF Wanted, Targets
  <2> QED
    BY <2>1, <2>2
<1>4. ~HasDevices => FilteredDevices = {}
  BY DEF HasDevices, FilteredDevices
<1> QED
  BY <1>1, <1>3, <1>4 DEF Wanted, Targets

\* Each device of execute has its turn once.
LEMMA ExecuteKeeps ==
    ASSUME EnvironmentOK, ServiceOK, ExecuteOK,
           \/ \E allowed \in SUBSET Devices, allowNoDevices \in BOOLEAN :
                 ExecuteStart(allowed, allowNoDevices) \/ ExecuteWithout(allowed, allowNoDevices)
           \/ \E d \in Devices : ExecuteOn(d)
           \/ ExecuteEnd
    PROVE  ExecuteOK'
<1>1. ASSUME NEW allowed \in SUBSET Devices, NEW allowNoDevices \in BOOLEAN,
             ExecuteStart(allowed, allowNoDevices) \/ ExecuteWithout(allowed, allowNoDevices)
      PROVE  ExecuteOK'
  <2> DEFINE targets == Targets \cap allowed
             wanted == Wanted \cap allowed
  <2>1. targets \in SUBSET Devices /\ wanted \in SUBSET Devices /\ (wanted # {} => wanted = targets)
    BY WantedAreTargets
  <2>2. CASE ExecuteStart(allowed, allowNoDevices)
    <3>1. exec' = [todo |-> targets, targets |-> targets, errors |-> {}, done |-> {},
                   wanted |-> wanted, state |-> "running"]
      BY <2>2 DEF ExecuteStart, NoExec
    <3> HIDE DEF targets, wanted
    <3> QED
      BY <2>1, <3>1 DEF ExecuteOK
  <2>3. CASE ExecuteWithout(allowed, allowNoDevices)
    <3>1. wanted = {}
      BY <2>3, WantedAreTargets DEF ExecuteWithout
    <3>2. PICK state \in {"skipped", "refused"} :
             exec' = [todo |-> {}, targets |-> {}, errors |-> {}, done |-> {}, wanted |-> {},
                      state |-> state]
      BY <2>3, <3>1 DEF ExecuteWithout, NoExec
    <3> QED
      BY <3>2 DEF ExecuteOK
  <2> QED
    BY <1>1, <2>2, <2>3
<1>2. ASSUME NEW d \in Devices, ExecuteOn(d) PROVE ExecuteOK'
  <2>1. exec.state = "running" /\ d \in exec.todo
    BY <1>2 DEF ExecuteOn
  <2>2. \/ exec' = [exec EXCEPT !.todo = @ \ {d}, !.done = @ \cup {d}]
        \/ exec' = [exec EXCEPT !.todo = @ \ {d}, !.errors = @ \cup {d}]
    BY <1>2 DEF ExecuteOn
  <2>3. CASE exec' = [exec EXCEPT !.todo = @ \ {d}, !.done = @ \cup {d}]
    <3>1. /\ exec'.todo = exec.todo \ {d} /\ exec'.done = exec.done \cup {d} /\ exec'.errors = exec.errors
          /\ exec'.targets = exec.targets /\ exec'.wanted = exec.wanted /\ exec'.state = "running"
          /\ exec' = [todo |-> exec'.todo, targets |-> exec'.targets, errors |-> exec'.errors,
                      done |-> exec'.done, wanted |-> exec.wanted, state |-> exec'.state]
      BY <2>1, <2>3 DEF ExecuteOK
    <3> QED
      BY <2>1, <3>1 DEF ExecuteOK
  <2>4. CASE exec' = [exec EXCEPT !.todo = @ \ {d}, !.errors = @ \cup {d}]
    <3>1. /\ exec'.todo = exec.todo \ {d} /\ exec'.errors = exec.errors \cup {d} /\ exec'.done = exec.done
          /\ exec'.targets = exec.targets /\ exec'.wanted = exec.wanted /\ exec'.state = "running"
          /\ exec' = [todo |-> exec'.todo, targets |-> exec'.targets, errors |-> exec'.errors,
                      done |-> exec'.done, wanted |-> exec.wanted, state |-> exec'.state]
      BY <2>1, <2>4 DEF ExecuteOK
    <3> QED
      BY <2>1, <3>1 DEF ExecuteOK
  <2> QED
    BY <2>2, <2>3, <2>4
<1>3. CASE ExecuteEnd
  BY <1>3 DEF ExecuteEnd, ExecuteOK
<1> QED
  BY <1>1, <1>2, <1>3

\* Every step keeps the invariant.
LEMMA DevicesNextIInv == DevicesIInv /\ [Next]_vars => DevicesIInv'
<1> SUFFICES ASSUME DevicesIInv, [Next]_vars PROVE DevicesIInv'
  OBVIOUS
<1> USE DEF DevicesIInv
<1>1. CASE DevicesChange
  <2>1. EnvironmentOK'
    BY <1>1, ServiceAssumption DEF DevicesChange, EnvironmentOK, intervalVars
  <2>2. ServiceOK' /\ SharingOK' /\ ChoiceOK'
    BY <1>1, ElsewhereKeeps DEF DevicesChange, intervalVars
  <2> QED
    BY <1>1, <2>1, <2>2 DEF DevicesChange, ExecuteOK
<1>2. ASSUME NEW c \in Callers, JoinInitialize(c) PROVE DevicesIInv'
  <2>1. EnvironmentOK'
    BY <1>2, ServiceAssumption DEF JoinInitialize, EnvironmentOK, intervalVars
  <2> QED
    BY <1>2, <2>1, JoinKeeps DEF JoinInitialize, ExecuteOK
<1>3. ASSUME NEW c \in Callers, NEW r \in Requests, StartInitialize(c, r) PROVE DevicesIInv'
  <2>1. EnvironmentOK'
    BY <1>3, ServiceAssumption DEF StartInitialize, EnvironmentOK, intervalVars
  <2> QED
    BY <1>3, <2>1, StartKeeps DEF StartInitialize, ExecuteOK
<1>4. CASE Begin
  <2>1. EnvironmentOK'
    BY <1>4, BeginKeeps DEF Begin, EnvironmentOK
  <2> QED
    BY <1>4, <2>1, BeginKeeps DEF Begin, ExecuteOK
<1>5. CASE EmulatorLook \/ EmulatorFailed \/ EmulatorStarted \/ EmulatorFind \/ Look
  <2>1. UNCHANGED <<changes, calls, exec>>
    BY <1>5 DEF EmulatorLook, EmulatorFailed, EmulatorStarted, EmulatorFind, Look
  <2>2. EnvironmentOK'
    BY <1>5, <2>1, CoreKeeps DEF EnvironmentOK
  <2> QED
    BY <1>5, <2>1, <2>2, CoreKeeps DEF ExecuteOK
<1>6. CASE TickStart \/ TickDetect
  <2>1. UNCHANGED <<serviceVars, callVars, first, attached, changes, calls, interval, exec>>
    BY <1>6 DEF TickStart, TickDetect
  <2>2. registry' \subseteq Devices
    BY <1>6, DetectionsAreDevices DEF TickStart, TickDetect, EnvironmentOK
  <2>3. tick' \in [state : {"none", "detecting", "updating"}, platform : Platforms \cup {None}]
    BY <1>6 DEF TickStart, TickDetect, EnvironmentOK, ServiceOK
  <2>4. EnvironmentOK'
    BY <2>1, <2>2, <2>3 DEF EnvironmentOK
  <2> QED
    BY <2>1, <2>4, ElsewhereKeeps DEF ExecuteOK
<1>7. CASE TickEnd
  <2>1. EnvironmentOK'
    BY <1>7 DEF TickEnd, EnvironmentOK
  <2> QED
    BY <1>7, <2>1, TickEndKeeps DEF TickEnd, ExecuteOK
<1>8. CASE \/ \E allowed \in SUBSET Devices, allowNoDevices \in BOOLEAN :
                 ExecuteStart(allowed, allowNoDevices) \/ ExecuteWithout(allowed, allowNoDevices)
           \/ \E d \in Devices : ExecuteOn(d)
           \/ ExecuteEnd
  <2>1. UNCHANGED <<attached, changes, registry, serviceVars, callVars, calls, intervalVars>>
    BY <1>8 DEF ExecuteStart, ExecuteWithout, ExecuteOn, ExecuteEnd
  <2>2. EnvironmentOK' /\ ServiceOK' /\ SharingOK' /\ ChoiceOK'
    BY <2>1, ElsewhereKeeps DEF EnvironmentOK, intervalVars
  <2> QED
    BY <1>8, <2>2, ExecuteKeeps
<1>9. CASE UNCHANGED vars
  <2>1. EnvironmentOK' /\ ExecuteOK'
    BY <1>9 DEF vars, intervalVars, EnvironmentOK, ExecuteOK
  <2> QED
    BY <1>9, <2>1, ElsewhereKeeps DEF vars, intervalVars
<1> QED
  BY <1>1, <1>2, <1>3, <1>4, <1>5, <1>6, <1>7, <1>8, <1>9 DEF Next

-----------------------------------------------------------------------------
\* The invariant holds in every state that can be reached.
THEOREM DevicesInvariant == Spec => []DevicesIInv
<1> QED
  BY DevicesInitIInv, DevicesNextIInv, PTL DEF Spec

\* The state of the service has its shape.
THEOREM DevicesTypeCorrect == Spec => []TypeOK
<1>1. DevicesIInv => TypeOK
  BY DEF DevicesIInv, EnvironmentOK, ServiceOK, SharingOK, ExecuteOK, TypeOK
<1> QED
  BY <1>1, DevicesInvariant, PTL

\* Before an initialize has failed, the device and the platform chosen are those the
\* successful initialize asked for.
THEOREM DevicesFirstChosenAsAsked == Spec => []FirstChosenAsAsked
<1>1. DevicesIInv => FirstChosenAsAsked
  BY DEF DevicesIInv, ChoiceOK, FirstChosenAsAsked, ChosenAsAsked
<1> QED
  BY <1>1, DevicesInvariant, PTL

\* execute covers the devices that are wanted whichever of them fail, and where it runs on
\* none, none was there.
THEOREM DevicesExecuteCoversTargets == Spec => []ExecuteCoversTargets
<1>1. DevicesIInv => ExecuteCoversTargets
  BY DEF DevicesIInv, ExecuteOK, ExecuteCoversTargets
<1> QED
  BY <1>1, DevicesInvariant, PTL

-----------------------------------------------------------------------------
\* The end of initializeCore is the end of the shared body.
LEMMA EndSettles ==
    ASSUME SharingOK, core # None, Reject \/ Resolve
    PROVE  Shared!SharedNext
<1>1. promise = "pending" /\ core' = None /\ pc \in [Callers -> {"idle", "waiting", "ok", "failed"}]
  BY DEF SharingOK, Reject, Resolve
<1>2. ASSUME NEW outcome \in {"ok", "failed"}, pc' = WaitersBecome(outcome),
             promise' = IF outcome = "ok" THEN "resolved" ELSE "none"
      PROVE  Shared!Settle(outcome)
  <2>1. {c \in Callers : pc'[c] = "waiting"} = {}
    BY <1>2 DEF WaitersBecome
  <2>2. \A c \in Callers : pc'[c] = IF pc[c] = "waiting" THEN outcome ELSE pc[c]
    BY <1>2 DEF WaitersBecome
  <2>3. [c \in Callers |-> IF pc'[c] \in {"ok", "failed"} THEN pc'[c] ELSE "none"]
        = [c \in Callers |-> IF c \in {d \in Callers : pc[d] = "waiting"} THEN outcome
             ELSE [d \in Callers |-> IF pc[d] \in {"ok", "failed"} THEN pc[d] ELSE "none"][c]]
    BY <2>2
  <2> QED
    BY <1>1, <1>2, <2>1, <2>3 DEF Shared!Settle
<1>3. CASE Reject
  BY <1>2, <1>3 DEF Reject, Shared!SharedNext
<1>4. CASE Resolve
  BY <1>2, <1>4 DEF Resolve, Shared!SharedNext
<1> QED
  BY <1>3, <1>4

\* A caller that waits joins the body in flight, or starts it.
LEMMA CallWaits ==
    ASSUME SharingOK, NEW c \in Callers, pc[c] \in {"idle", "failed"}, promise # "resolved",
           promise' = "pending", core' # None, pc' = [pc EXCEPT ![c] = "waiting"]
    PROVE  Shared!SharedNext
<1>1. pc \in [Callers -> {"idle", "waiting", "ok", "failed"}] /\ (core = None <=> promise = "none")
  BY DEF SharingOK
<1>2. {d \in Callers : pc'[d] = "waiting"} = {d \in Callers : pc[d] = "waiting"} \cup {c}
  BY <1>1
<1>3. [d \in Callers |-> IF pc'[d] \in {"ok", "failed"} THEN pc'[d] ELSE "none"]
      = [[d \in Callers |-> IF pc[d] \in {"ok", "failed"} THEN pc[d] ELSE "none"] EXCEPT ![c] = "none"]
  BY <1>1
<1>4. c \notin {d \in Callers : pc[d] = "waiting"}
  OBVIOUS
<1>5. Shared!PendingOrStarted
  BY <1>1 DEF Shared!PendingOrStarted, SharingOK
<1> QED
  BY <1>2, <1>3, <1>4, <1>5 DEF Shared!Wait, Shared!SharedNext

\* A caller that the kept promise answers.
LEMMA CallIsAnswered ==
    ASSUME SharingOK, NEW c \in Callers, pc[c] \in {"idle", "failed"}, promise = "resolved",
           UNCHANGED <<promise, core>>, pc' = [pc EXCEPT ![c] = "ok"]
    PROVE  Shared!SharedNext
<1>1. pc \in [Callers -> {"idle", "waiting", "ok", "failed"}]
  BY DEF SharingOK
<1>2. {d \in Callers : pc'[d] = "waiting"} = {d \in Callers : pc[d] = "waiting"}
  BY <1>1
<1>3. [d \in Callers |-> IF pc'[d] \in {"ok", "failed"} THEN pc'[d] ELSE "none"]
      = [[d \in Callers |-> IF pc[d] \in {"ok", "failed"} THEN pc[d] ELSE "none"] EXCEPT ![c] = "ok"]
  BY <1>1
<1>4. c \notin {d \in Callers : pc[d] = "waiting"}
  OBVIOUS
<1> QED
  BY <1>2, <1>3, <1>4 DEF Shared!Kept, Shared!SharedNext

\* Nothing happens to the shared promise while its body is at work.
LEMMA WorkStutters ==
    ASSUME UNCHANGED <<promise, pc>>, core' = None <=> core = None
    PROVE  UNCHANGED Shared!sharedVars
BY DEF Shared!sharedVars

\* Every step of the service is a step of the shared promise, or none.
LEMMA NextIsShared == DevicesIInv /\ [Next]_vars => [Shared!SharedNext]_Shared!sharedVars
<1> SUFFICES ASSUME DevicesIInv, [Next]_vars PROVE Shared!SharedNext \/ UNCHANGED Shared!sharedVars
  OBVIOUS
<1>s. SharingOK
  BY DEF DevicesIInv
<1>1. ASSUME NEW c \in Callers, JoinInitialize(c) PROVE Shared!SharedNext
  BY <1>1, <1>s, CallWaits, CallIsAnswered DEF JoinInitialize, SharingOK
<1>2. ASSUME NEW c \in Callers, NEW r \in Requests, StartInitialize(c, r) PROVE Shared!SharedNext
  <2>1. core' # None
    BY <1>2, ServiceAssumption DEF StartInitialize, CoreAt
  <2> QED
    BY <1>2, <1>s, <2>1, CallWaits DEF StartInitialize
<1>3. ASSUME Begin \/ EmulatorLook \/ EmulatorFailed \/ EmulatorStarted \/ EmulatorFind \/ Look \/ TickEnd
      PROVE  Shared!SharedNext \/ UNCHANGED Shared!sharedVars
  <2>1. SharingOK'
    BY <1>3, DevicesNextIInv DEF DevicesIInv, Next
  <2>2. \/ core # None /\ (Reject \/ Resolve)
        \/ core # None /\ UNCHANGED <<promise, pc>>
        \/ UNCHANGED callVars
    <3>1. CASE Begin
      BY <3>1, ConcludeSettles DEF Begin, BeginLook, AwaitDetection, AwaitInterval
    <3>2. CASE EmulatorLook \/ EmulatorFailed \/ EmulatorStarted \/ EmulatorFind
      BY <3>2 DEF EmulatorLook, EmulatorFailed, EmulatorStarted, EmulatorFind
    <3>3. CASE Look
      BY <3>3, ConcludeSettles DEF Look
    <3>4. CASE TickEnd
      BY <3>4, ConcludeSettles DEF TickEnd
    <3> QED
      BY <1>3, <3>1, <3>2, <3>3, <3>4
  <2>3. CASE core # None /\ (Reject \/ Resolve)
    BY <1>s, <2>3, EndSettles
  <2>4. CASE UNCHANGED <<promise, pc>>
    BY <1>s, <2>1, <2>4, WorkStutters DEF SharingOK
  <2> QED
    BY <2>2, <2>3, <2>4 DEF callVars
<1>4. ASSUME \/ DevicesChange \/ TickStart \/ TickDetect
             \/ \E allowed \in SUBSET Devices, allowNoDevices \in BOOLEAN :
                   ExecuteStart(allowed, allowNoDevices) \/ ExecuteWithout(allowed, allowNoDevices)
             \/ \E d \in Devices : ExecuteOn(d)
             \/ ExecuteEnd
             \/ UNCHANGED vars
      PROVE  UNCHANGED Shared!sharedVars
  <2>1. UNCHANGED callVars
    BY <1>4 DEF DevicesChange, TickStart, TickDetect, ExecuteStart, ExecuteWithout, ExecuteOn, ExecuteEnd, vars
  <2> QED
    BY <2>1, WorkStutters DEF callVars
<1> QED
  BY <1>1, <1>2, <1>3, <1>4 DEF Next

\* initialize implements SharedPromise: one initializeCore at a time, and all who wait
\* for it told alike.
THEOREM DevicesInitializeIsShared == Spec => InitializeIsShared
<1>1. Init => Shared!SharedInit
  BY DEF Init, Shared!SharedInit
<1> QED
  BY <1>1, DevicesInvariant, NextIsShared, PTL DEF Spec, InitializeIsShared, Shared!SharedSpec
=============================================================================
