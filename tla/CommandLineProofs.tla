--------------------------- MODULE CommandLineProofs ---------------------------
(***************************************************************************)
(* What is proved about the command line, its analytics and what its       *)
(* commands use, each component by itself and then side by side as in      *)
(* MCCommandLine.                                                          *)
(***************************************************************************)
EXTENDS MCCommandLine, CommandsProofs, SequenceTheorems, FiniteSetTheorems, WellFoundedInduction, TLAPS

-----------------------------------------------------------------------------
(***************************************************************************)
(* npm.  The references file names the definitions that are there,         *)
(* whatever calls of the npm service overlap and whatever their processes  *)
(* do: each step of a call leaves a call under way that will write the     *)
(* file, or is an end that writes it from what there is, or the rejection  *)
(* of an uninstall.                                                        *)
(***************************************************************************)
Manifests == [dependencies : SUBSET Packages, types : SUBSET Packages]
Modules == [packages : SUBSET Packages, types : SUBSET Packages]
Steps == {"idle", "installs", "installsTypes", "prunes", "installsAll", "uninstalls", "uninstallsTypes",
          "generates", "asksUrl", "asksProxy", "queries"}
Records == [step : Steps, dep : Packages, types : BOOLEAN, read : Manifests]

PackagesOK == saved \in Manifests /\ present \in Modules
CallsOK == npmCall \in [Calls -> Records]
RestOK ==
    /\ registryUrl \in {"unknown", "known"}
    /\ npmProxy \in [checked : BOOLEAN, used : BOOLEAN]
OutcomeOK == rejected \in BOOLEAN /\ references \in [core : BOOLEAN, types : SUBSET Packages]

\* The file is what the packages make it, or somebody has yet to write it, or nobody will.
Follows ==
    \/ rejected
    \/ \E c \in Calls : npmCall[c].step # "idle"
    \/ references = ReferenceLines(saved, present)

NpmIInv == PackagesOK /\ CallsOK /\ RestOK /\ OutcomeOK /\ Follows

-----------------------------------------------------------------------------
\* A call that does nothing.
LEMMA IdleIsTyped == Idle \in Records /\ Idle.step = "idle"
<1> DEFINE read == [dependencies |-> {}, types |-> {}]
<1>1. read \in Manifests
  BY DEF Manifests
<1>2. Core \in Packages /\ "idle" \in Steps
  BY NpmAssumption DEF Steps
<1> HIDE DEF read
<1>3. Idle = [step |-> "idle", dep |-> Core, types |-> FALSE, read |-> read]
  BY DEF Idle, read
<1>4. Idle \in Records
  BY <1>1, <1>2, <1>3, Zenon DEF Records
<1> QED
  BY <1>3, <1>4

\* The lines of the references file.
LEMMA ReferencesAreTyped ==
    ASSUME NEW json \in Manifests, NEW modules \in Modules
    PROVE  ReferenceLines(json, modules) \in [core : BOOLEAN, types : SUBSET Packages]
<1>1. json.types \cap modules.types \in SUBSET Packages
  BY DEF Manifests, Modules
<1>2. (Core \in json.dependencies /\ Core \in modules.packages) \in BOOLEAN
  OBVIOUS
<1> QED
  BY <1>1, <1>2, Zenon DEF ReferenceLines

\* The invariant holds before the first call.
LEMMA NpmInitIInv == NpmInit => NpmIInv
<1> SUFFICES ASSUME NpmInit PROVE NpmIInv
  OBVIOUS
<1>1. PackagesOK
  <2>1. Core \in Packages
    BY NpmAssumption
  <2>2. saved \in Manifests
    BY <2>1 DEF NpmInit, Manifests
  <2> QED
    BY <2>2 DEF NpmInit, PackagesOK, Manifests, Modules
<1>2. CallsOK
  BY IdleIsTyped DEF NpmInit, CallsOK
<1>3. RestOK
  <2>1. npmProxy \in [checked : BOOLEAN, used : BOOLEAN]
    BY Zenon DEF NpmInit
  <2> QED
    BY <2>1 DEF NpmInit, RestOK
<1>4. OutcomeOK /\ Follows
  BY <1>1, ReferencesAreTyped DEF NpmInit, OutcomeOK, Follows, PackagesOK
<1> QED
  BY <1>1, <1>2, <1>3, <1>4 DEF NpmIInv

\* What npm's processes do keeps the packages packages of the project.
LEMMA NpmDoesPackages ==
    ASSUME PackagesOK, CallsOK, NEW c \in Calls, NpmDoes(c)
    PROVE  PackagesOK'
<1> DEFINE d == npmCall[c].dep
<1>d. d \in Packages
  BY DEF CallsOK, Records
<1>1. Saving(c) \in Manifests
  BY <1>d DEF Saving, PackagesOK, Manifests
<1>2. Placing(c) \in Modules
  BY <1>d DEF Placing, PackagesOK, Modules, Manifests
<1> QED
  BY <1>1, <1>2 DEF NpmDoes, PackagesOK

\* A call that goes on will come to write the file.
LEMMA ProceedKeeps ==
    ASSUME CallsOK, OutcomeOK, NEW c \in Calls, NEW record \in Records, record.step # "idle", Proceed(c, record)
    PROVE  CallsOK' /\ Follows' /\ OutcomeOK'
<1>1. npmCall' \in [Calls -> Records] /\ npmCall'[c] = record
  BY DEF CallsOK, Proceed, Go
<1> QED
  BY <1>1 DEF CallsOK, Follows, OutcomeOK, Proceed

\* The end of a call writes it.
LEMMA GenerateKeeps ==
    ASSUME CallsOK, PackagesOK', NEW c \in Calls, Generate(c)
    PROVE  CallsOK' /\ Follows' /\ OutcomeOK'
<1>1. CallsOK' /\ Follows'
  BY IdleIsTyped DEF CallsOK, Follows, Generate, Go
<1>2. references' \in [core : BOOLEAN, types : SUBSET Packages]
  BY DEF Generate, ReferenceLines, PackagesOK, Manifests, Modules
<1> QED
  BY <1>1, <1>2 DEF Generate, OutcomeOK

\* A rejected uninstall does not.
LEMMA RejectionKeeps ==
    ASSUME CallsOK, OutcomeOK, NEW c \in Calls, Go(c, Idle), rejected' = TRUE, UNCHANGED references
    PROVE  CallsOK' /\ Follows' /\ OutcomeOK'
BY IdleIsTyped DEF CallsOK, Follows, OutcomeOK, Go

\* A call that takes its next step keeps the rest of its record.
LEMMA StepIsTyped ==
    ASSUME CallsOK, NEW c \in Calls, NEW step \in Steps
    PROVE  /\ [npmCall[c] EXCEPT !.step = step] \in Records
           /\ [npmCall[c] EXCEPT !.step = step].step = step
BY DEF CallsOK, Records

-----------------------------------------------------------------------------
\* An install that begins.
LEMMA InstallKeeps ==
    ASSUME NpmIInv, NEW c \in Calls, Install(c)
    PROVE  NpmIInv'
<1> USE DEF NpmIInv
<1>1. PackagesOK' /\ RestOK'
  BY DEF Install, EnvironmentUnchanged, PackagesOK, RestOK
<1>2. CASE \E d \in Packages, types \in BOOLEAN : Proceed(c, [Idle EXCEPT !.step = "installs", !.dep = d, !.types = types])
  <2>1. PICK d \in Packages, types \in BOOLEAN : Proceed(c, [Idle EXCEPT !.step = "installs", !.dep = d, !.types = types])
    BY <1>2
  <2>2. [Idle EXCEPT !.step = "installs", !.dep = d, !.types = types] \in Records
    <3>1. "installs" \in Steps
      BY DEF Steps
    <3> QED
      BY <3>1, IdleIsTyped, Zenon DEF Records
  <2>3. [Idle EXCEPT !.step = "installs", !.dep = d, !.types = types].step = "installs"
    BY DEF Idle
  <2> QED
    BY <1>1, <2>1, <2>2, <2>3, ProceedKeeps
<1>3. CASE Proceed(c, [Idle EXCEPT !.step = "prunes"])
  <2>1. [Idle EXCEPT !.step = "prunes"] \in Records /\ [Idle EXCEPT !.step = "prunes"].step = "prunes"
    BY IdleIsTyped DEF Records, Steps
  <2> QED
    BY <1>1, <1>3, <2>1, ProceedKeeps
<1> QED
  BY <1>2, <1>3 DEF Install

\* An uninstall that begins, or finds nothing to do.
LEMMA UninstallKeeps ==
    ASSUME NpmIInv, NEW c \in Calls, Uninstall(c)
    PROVE  NpmIInv'
<1> USE DEF NpmIInv
<1>1. PackagesOK' /\ RestOK'
  BY DEF Uninstall, EnvironmentUnchanged, PackagesOK, RestOK
<1>2. PICK d \in Packages :
          LET step == UninstallStep(saved, d, "idle")
          IN IF step = "generates" THEN Generate(c)
             ELSE Proceed(c, [Idle EXCEPT !.step = step, !.dep = d, !.read = saved])
  BY DEF Uninstall
<1> DEFINE step == UninstallStep(saved, d, "idle")
           record == [Idle EXCEPT !.step = step, !.dep = d, !.read = saved]
<1>3. step \in Steps /\ step # "idle"
  BY DEF UninstallStep, Steps
<1>4. record \in Records /\ record.step = step
  BY <1>3, NpmAssumption DEF Idle, Records, PackagesOK
<1> HIDE DEF record
<1>5. Generate(c) \/ Proceed(c, record)
  BY <1>2 DEF record
<1> QED
  BY <1>1, <1>3, <1>4, <1>5, ProceedKeeps, GenerateKeeps

\* A process of an install ends, well or not.
LEMMA InstallEndsKeeps ==
    ASSUME NpmIInv, NEW c \in Calls, InstallEnds(c)
    PROVE  NpmIInv'
<1> USE DEF NpmIInv
<1>1. NpmDoes(c) \/ UNCHANGED <<saved, present>>
  BY DEF InstallEnds
<1>2. PackagesOK'
  BY <1>1, NpmDoesPackages DEF PackagesOK
<1>3. RestOK'
  BY DEF InstallEnds, EnvironmentUnchanged, RestOK
<1>4. \/ Generate(c)
      \/ Proceed(c, [npmCall[c] EXCEPT !.step = "installsAll"])
      \/ Proceed(c, [npmCall[c] EXCEPT !.step = Asking])
  BY DEF InstallEnds
<1>6. "installsAll" \in Steps
  BY DEF Steps
<1>5. Asking \in Steps /\ Asking # "idle"
  BY DEF Asking, AfterUrl, Steps
<1> QED
  BY <1>2, <1>3, <1>4, <1>5, <1>6, StepIsTyped, ProceedKeeps, GenerateKeeps

\* A process of an uninstall ends: the next one, the file, or the rejection.
LEMMA UninstallEndsKeeps ==
    ASSUME NpmIInv, NEW c \in Calls, UninstallEnds(c)
    PROVE  NpmIInv'
<1> USE DEF NpmIInv
<1> DEFINE step == UninstallStep(npmCall[c].read, npmCall[c].dep, npmCall[c].step)
<1>1. NpmDoes(c) \/ UNCHANGED <<saved, present>>
  BY DEF UninstallEnds
<1>2. PackagesOK'
  BY <1>1, NpmDoesPackages DEF PackagesOK
<1>3. RestOK'
  BY DEF UninstallEnds, EnvironmentUnchanged, RestOK
<1>4. \/ Generate(c)
      \/ Proceed(c, [npmCall[c] EXCEPT !.step = step])
      \/ Go(c, Idle) /\ rejected' = TRUE /\ UNCHANGED references
  BY DEF UninstallEnds
<1>5. step \in Steps /\ step # "idle"
  BY DEF UninstallStep, Steps
<1> HIDE DEF step
<1> QED
  <2>1. CASE Generate(c)
    BY <1>2, <1>3, <2>1, GenerateKeeps
  <2>2. CASE Proceed(c, [npmCall[c] EXCEPT !.step = step])
    <3>1. [npmCall[c] EXCEPT !.step = step] \in Records /\ [npmCall[c] EXCEPT !.step = step].step = step
      BY <1>5, StepIsTyped
    <3>2. CallsOK' /\ Follows' /\ OutcomeOK'
      BY <1>5, <2>2, <3>1, ProceedKeeps
    <3> QED
      BY <1>2, <1>3, <3>2
  <2>3. CASE Go(c, Idle) /\ rejected' = TRUE /\ UNCHANGED references
    BY <1>2, <1>3, <2>3, RejectionKeeps
  <2> QED
    BY <1>4, <2>1, <2>2, <2>3

\* The questions whether the registry has the types change no package.
LEMMA QuestionsKeep ==
    ASSUME NpmIInv, NEW c \in Calls, AskRegistryUrl(c) \/ AskProxy(c) \/ Query(c)
    PROVE  NpmIInv'
<1> USE DEF NpmIInv
<1>1. PackagesOK'
  BY DEF AskRegistryUrl, AskProxy, Query, PackagesOK
<1>2. CASE AskRegistryUrl(c)
  <2>1. AfterUrl \in Steps /\ AfterUrl # "idle"
    BY DEF AfterUrl, Steps
  <2>2. CallsOK' /\ Follows' /\ OutcomeOK'
    BY <1>2, <2>1, StepIsTyped, ProceedKeeps DEF AskRegistryUrl
  <2> QED
    BY <1>1, <1>2, <2>2 DEF AskRegistryUrl, RestOK
<1>3. CASE AskProxy(c)
  <2>1. CallsOK' /\ Follows' /\ OutcomeOK'
    BY <1>3, StepIsTyped, ProceedKeeps DEF AskProxy, Steps
  <2>2. PICK ending \in Endings : npmProxy' = [checked |-> TRUE, used |-> npmProxy.used \/ (Exec(ending) = "resolved" /\ settings.npm)]
    BY <1>3 DEF AskProxy
  <2>3. npmProxy' \in [checked : BOOLEAN, used : BOOLEAN]
    BY <2>2, Zenon
  <2> QED
    BY <1>1, <1>3, <2>1, <2>3 DEF AskProxy, RestOK
<1>4. CASE Query(c)
  <2>1. Generate(c) \/ Proceed(c, [npmCall[c] EXCEPT !.step = "installsTypes"])
    BY <1>4 DEF Query
  <2>2. CallsOK' /\ Follows' /\ OutcomeOK'
    BY <1>1, <2>1, StepIsTyped, ProceedKeeps, GenerateKeeps DEF Steps
  <2> QED
    BY <1>1, <1>4, <2>2 DEF Query, EnvironmentUnchanged, RestOK
<1> QED
  BY <1>2, <1>3, <1>4

\* Whatever a call does, the invariant holds afterwards.
LEMMA NpmNextIInv == NpmIInv /\ [NpmNext]_npmVars => NpmIInv'
<1> SUFFICES ASSUME NpmIInv, [NpmNext]_npmVars PROVE NpmIInv'
  OBVIOUS
<1>1. CASE UNCHANGED npmVars
  BY <1>1 DEF npmVars, NpmIInv, PackagesOK, CallsOK, RestOK, OutcomeOK, Follows
<1>2. CASE NpmNext
  BY <1>2, InstallKeeps, UninstallKeeps, InstallEndsKeeps, UninstallEndsKeeps, QuestionsKeep DEF NpmNext
<1> QED
  BY <1>1, <1>2

-----------------------------------------------------------------------------
\* The invariant holds in every state that can be reached.
THEOREM NpmInvariant == NpmSpec => []NpmIInv
<1> QED
  BY NpmInitIInv, NpmNextIInv, PTL DEF NpmSpec

\* The state of the npm service has its shape.
THEOREM NpmTypeCorrect == NpmSpec => []NpmTypeOK
<1>1. NpmIInv => NpmTypeOK
  BY DEF NpmIInv, PackagesOK, CallsOK, RestOK, OutcomeOK, NpmTypeOK, Manifests, Modules, Records
<1> QED
  BY <1>1, NpmInvariant, PTL

\* The references file names exactly the definitions that are there, unless a call that
\* will write it is under way or an uninstall was rejected.
THEOREM NpmReferencesFollow == NpmSpec => []ReferencesFollowPackages
<1>1. NpmIInv => ReferencesFollowPackages
  <2> SUFFICES ASSUME NpmIInv, references = ReferenceLines(saved, present) PROVE ReferencesFollowPackages
    BY DEF NpmIInv, Follows, ReferencesFollowPackages
  <2>1. references.core <=> Core \in saved.dependencies \cap present.packages
    BY Zenon DEF ReferenceLines
  <2>2. references.types = saved.types \cap present.types
    BY DEF ReferenceLines
  <2> QED
    BY <2>1, <2>2 DEF ReferencesFollowPackages
<1> QED
  BY <1>1, NpmInvariant, PTL

-----------------------------------------------------------------------------
(***************************************************************************)
(* The HTTP client.  A timer that runs belongs to a request that is not    *)
(* answered; how far a request is says what its status and its pipe may    *)
(* be, and with them what the end of the response answers.  A stream whose *)
(* error nobody hears takes the end with it, and leaves the timer.         *)
(***************************************************************************)
SettingSteps == {"idle", "asksUrl", "asksPort", "asksUser", "asksPassword", "saves", "fails"}
SettingRecords == [step : SettingSteps, url : Urls, user : Users, password : Passwords, asked : BOOLEAN]
Stages == {"idle", "readsProxy", "sent", "receives", "broken", "over", "died"}
RequestRecords ==
    [stage : Stages, timeout : BOOLEAN, pipe : BOOLEAN, own : BOOLEAN, pipeTo : BOOLEAN,
     via : {"direct", "cached", "own"}, timer : {"none", "runs", "cleared", "fired"},
     status : {"none", "success", "failure"}, coded : BOOLEAN, file : {"empty", "partial", "cut", "whole"},
     answer : {"none", "timedOut", "failed", "response"}]

\* What the stage of a request says of it.
StageOK(q) ==
    /\ q.stage \in {"idle", "readsProxy"} => q.answer = "none" /\ q.timer = "none"
    /\ q.stage = "readsProxy" => q.pipeTo = q.pipe
    /\ q.stage = "sent" => q.pipeTo = q.pipe
    /\ q.stage = "receives" => q.status \in {"success", "failure"} /\ (q.pipeTo <=> q.pipe /\ q.status = "success")
    /\ q.timer = "runs" => q.timeout /\ q.answer = "none"
    /\ q.answer = "response" => q.stage = "over"

\* What RequestsAreAnswered says of one request.
Answered(q) ==
    /\ q.timeout /\ q.answer = "none" /\ q.stage \notin {"idle", "readsProxy", "died"} => q.timer = "runs"
    /\ q.answer = "response" => /\ q.status = "success"
                                /\ q.pipe => q.file \in (IF q.coded THEN {"whole"} ELSE {"whole", "cut"})
    /\ q.answer = "timedOut" => q.timeout
    /\ q.stage = "over" => q.answer # "none"

\* A proxy set that is about to save has the password its user needs.
SettingOK == setting \in SettingRecords /\ (setting.step = "saves" => ~PasswordRequired(setting))
CachedProxyOK ==
    \/ cached = NoProxy
    \/ cached \in [user : Users, password : Passwords] /\ (cached.user # Empty => cached.password # Empty)

HttpIInv ==
    /\ request \in [Requests -> RequestRecords]
    /\ \A r \in Requests : StageOK(request[r]) /\ Answered(request[r])
    /\ SettingOK /\ CachedProxyOK /\ interactive \in BOOLEAN

\* A proxy set that has not begun.
LEMMA NotSettingIsTyped == NotSetting \in SettingRecords /\ NotSetting.step = "idle" /\ NotSetting.asked = FALSE
<1>1. (CHOOSE u \in Urls : TRUE) \in Urls
  BY HttpAssumption
<1> DEFINE first == CHOOSE u \in Urls : TRUE
<1>2. NotSetting = [step |-> "idle", url |-> first, user |-> Empty, password |-> Empty, asked |-> FALSE]
  BY DEF NotSetting
<1>3. first \in Urls /\ Empty \in Users /\ Empty \in Passwords /\ "idle" \in SettingSteps
  BY <1>1, HttpAssumption DEF SettingSteps
<1> HIDE DEF first
<1> QED
  BY <1>2, <1>3 DEF SettingRecords

\* A request that was not called.
LEMMA NotCalledIsTyped == NotCalled \in RequestRecords /\ StageOK(NotCalled) /\ Answered(NotCalled)
BY DEF NotCalled, RequestRecords, Stages, StageOK, Answered

\* The invariant holds before the first request.
LEMMA HttpInitIInv == HttpInit => HttpIInv
BY NotSettingIsTyped, NotCalledIsTyped
   DEF HttpInit, HttpIInv, SettingOK, CachedProxyOK, PasswordRequired

\* A request that goes on as it should leaves the others as they are.
LEMMA OneRequestMoves ==
    ASSUME HttpIInv, NEW r \in Requests, NEW q \in RequestRecords, StageOK(q), Answered(q),
           request' = [request EXCEPT ![r] = q], UNCHANGED <<cached, setting, interactive>>
    PROVE  HttpIInv'
<1>1. request' \in [Requests -> RequestRecords] /\ \A o \in Requests : StageOK(request'[o]) /\ Answered(request'[o])
  BY DEF HttpIInv
<1>2. (SettingOK /\ CachedProxyOK /\ interactive \in BOOLEAN)'
  BY Zenon DEF HttpIInv, SettingOK, CachedProxyOK, PasswordRequired
<1>3. (request \in [Requests -> RequestRecords] /\ \A o \in Requests : StageOK(request[o]) /\ Answered(request[o]))'
  BY <1>1, Zenon
<1> QED
  BY <1>2, <1>3, Zenon DEF HttpIInv

\* Each event of a request.
LEMMA RequestKeeps ==
    ASSUME HttpIInv, NEW r \in Requests,
           \/ HttpRequest(r) \/ GetCacheFails(r) \/ SendRequest(r) \/ TimedOut(r) \/ RequestError(r)
           \/ OnResponse(r) \/ StreamError(r) \/ OnEnd(r)
    PROVE  HttpIInv'
<1> DEFINE q == request[r]
<1>0. q \in RequestRecords /\ StageOK(q) /\ Answered(q)
  BY DEF HttpIInv
<1> SUFFICES ASSUME NEW new \in RequestRecords, StageOK(new), Answered(new),
                    request' = [request EXCEPT ![r] = new], UNCHANGED <<cached, setting, interactive>>
             PROVE  HttpIInv'
  <2>1. CASE HttpRequest(r)
    <3>1. PICK timeout, pipe, own \in BOOLEAN :
             request' = [request EXCEPT ![r] =
                [request[r] EXCEPT !.stage = "readsProxy", !.timeout = timeout, !.pipe = pipe, !.own = own, !.pipeTo = pipe]]
      BY <2>1 DEF HttpRequest
    <3>2. q.stage = "idle"
      BY <2>1 DEF HttpRequest
    <3> DEFINE new == [q EXCEPT !.stage = "readsProxy", !.timeout = timeout, !.pipe = pipe, !.own = own, !.pipeTo = pipe]
    <3>3. new \in RequestRecords /\ StageOK(new) /\ Answered(new)
      BY <1>0, <3>2 DEF RequestRecords, Stages, StageOK, Answered
    <3> QED
      BY <2>1, <3>1, <3>3 DEF HttpRequest
  <2>2. CASE SendRequest(r)
    <3> DEFINE via == ProxyFor(q.own, cached)
               new == IF via = "throws"
                      THEN [q EXCEPT !.stage = "over", !.answer = "failed"]
                      ELSE [q EXCEPT !.stage = "sent", !.via = via, !.timer = IF q.timeout THEN "runs" ELSE "none"]
    <3>1. q.stage = "readsProxy" /\ request' = [request EXCEPT ![r] = new] /\ UNCHANGED <<cached, setting, interactive>>
      BY <2>2 DEF SendRequest
    <3>2. via \in {"throws", "direct", "cached", "own"}
      BY DEF ProxyFor
    <3> HIDE DEF via
    <3>3. new \in RequestRecords /\ StageOK(new) /\ Answered(new)
      BY <1>0, <3>1, <3>2 DEF RequestRecords, Stages, StageOK, Answered
    <3> QED
      BY <3>1, <3>3
  <2>3. CASE TimedOut(r)
    <3> DEFINE fired == [q EXCEPT !.timer = "fired"]
               new == ResponseResult(fired, "timedOut")
    <3>1. q.timer = "runs" /\ request' = [request EXCEPT ![r] = new] /\ UNCHANGED <<cached, setting, interactive>>
      BY <2>3 DEF TimedOut
    <3>2. /\ fired \in RequestRecords /\ fired.timer = "fired" /\ fired.answer = "none" /\ fired.timeout
          /\ fired.stage \notin {"idle", "readsProxy"} /\ fired.stage = q.stage /\ fired.status = q.status
          /\ fired.pipe = q.pipe /\ fired.pipeTo = q.pipeTo
      BY <1>0, <3>1 DEF RequestRecords, Stages, StageOK, Answered
    <3>3. StageOK(q) /\ q.stage \notin {"idle", "readsProxy"}
      BY <1>0, <3>1 DEF StageOK
    <3> HIDE DEF fired
    <3>4. new \in RequestRecords
      BY <3>2 DEF RequestRecords, ResponseResult
    <3>5. StageOK(new) /\ Answered(new)
      BY <3>2, <3>3 DEF RequestRecords, StageOK, Answered, ResponseResult
    <3> QED
      BY <3>1, <3>4, <3>5
  <2>4. CASE RequestError(r)
    <3> DEFINE broken == [q EXCEPT !.stage = "over"]
               new == ResponseResult(broken, "failed")
    <3>1. q.stage \in {"sent", "receives", "broken"} /\ request' = [request EXCEPT ![r] = new] /\ UNCHANGED <<cached, setting, interactive>>
      BY <2>4 DEF RequestError
    <3>2. /\ broken \in RequestRecords /\ broken.stage = "over" /\ broken.file = q.file
          /\ broken.timer = q.timer /\ broken.answer = q.answer /\ broken.timeout = q.timeout
          /\ broken.status = q.status /\ broken.pipe = q.pipe /\ broken.pipeTo = q.pipeTo
      BY <1>0, <3>1 DEF RequestRecords, Stages
    <3> HIDE DEF broken
    <3>3. new \in RequestRecords
      BY <3>2 DEF RequestRecords, ResponseResult
    <3>4. StageOK(new) /\ Answered(new)
      BY <1>0, <3>1, <3>2, <3>3 DEF RequestRecords, StageOK, Answered, ResponseResult
    <3> QED
      BY <3>1, <3>3, <3>4
  <2>5. CASE OnResponse(r)
    <3>1. PICK code \in {"success", "failure"}, coded \in BOOLEAN :
             LET piped == Piped(request[r], code)
             IN request' = [request EXCEPT ![r] =
                   [request[r] EXCEPT !.stage = "receives", !.status = code, !.coded = coded, !.pipeTo = piped,
                                      !.file = IF piped THEN "partial" ELSE @]]
      BY <2>5 DEF OnResponse
    <3> DEFINE piped == Piped(q, code)
               new == [q EXCEPT !.stage = "receives", !.status = code, !.coded = coded, !.pipeTo = piped,
                                !.file = IF piped THEN "partial" ELSE @]
    <3>2. q.stage = "sent" /\ UNCHANGED <<cached, setting, interactive>>
      BY <2>5 DEF OnResponse
    <3>3. piped \in BOOLEAN /\ (piped <=> q.pipeTo /\ code = "success")
      BY <1>0 DEF Piped, RequestRecords
    <3>4. new \in RequestRecords /\ StageOK(new) /\ Answered(new)
      <4> HIDE DEF piped
      <4> QED
        BY <1>0, <3>2, <3>3 DEF RequestRecords, Stages, StageOK, Answered
    <3> QED
      BY <3>1, <3>2, <3>4
  <2>6. CASE OnEnd(r)
    <3>0. PICK received \in (IF q.coded THEN {"whole"} ELSE {"whole", "cut"}) :
             request' = [request EXCEPT ![r] =
                ResponseResult([request[r] EXCEPT !.stage = "over", !.file = IF request[r].pipeTo THEN received ELSE @],
                               EndResult(request[r]))]
      BY <2>6 DEF OnEnd
    <3> DEFINE ended == [q EXCEPT !.stage = "over", !.file = IF q.pipeTo THEN received ELSE @]
               new == ResponseResult(ended, EndResult(q))
    <3>1. q.stage = "receives" /\ request' = [request EXCEPT ![r] = new] /\ UNCHANGED <<cached, setting, interactive>>
      BY <2>6, <3>0 DEF OnEnd
    <3>2. /\ ended \in RequestRecords /\ ended.stage = "over" /\ ended.file = (IF q.pipeTo THEN received ELSE q.file)
          /\ ended.coded = q.coded
          /\ ended.timer = q.timer /\ ended.answer = q.answer /\ ended.timeout = q.timeout
          /\ ended.status = q.status /\ ended.pipe = q.pipe /\ ended.pipeTo = q.pipeTo
      BY <1>0, <3>1 DEF RequestRecords, Stages
    <3>3. EndResult(q) \in {"response", "failed"} /\ (EndResult(q) = "response" => q.pipeTo \/ q.status = "success")
      BY DEF EndResult
    <3> HIDE DEF ended
    <3>4. new \in RequestRecords
      BY <3>2, <3>3 DEF RequestRecords, ResponseResult
    <3>5. StageOK(new) /\ Answered(new)
      BY <1>0, <3>1, <3>2, <3>3, <3>4 DEF RequestRecords, StageOK, Answered, ResponseResult
    <3> QED
      BY <3>1, <3>4, <3>5
  <2>7. CASE GetCacheFails(r)
    <3> DEFINE new == [q EXCEPT !.stage = "over", !.answer = "failed"]
    <3>1. q.stage = "readsProxy" /\ request' = [request EXCEPT ![r] = new] /\ UNCHANGED <<cached, setting, interactive>>
      BY <2>7 DEF GetCacheFails
    <3>2. new \in RequestRecords /\ StageOK(new) /\ Answered(new)
      BY <1>0, <3>1 DEF RequestRecords, Stages, StageOK, Answered
    <3> QED
      BY <3>1, <3>2
  <2>8. CASE StreamError(r)
    <3> DEFINE new == [q EXCEPT !.stage = "broken"]
    <3>1. q.stage = "receives" /\ request' = [request EXCEPT ![r] = new] /\ UNCHANGED <<cached, setting, interactive>>
      BY <2>8 DEF StreamError
    <3>2. new \in RequestRecords /\ StageOK(new) /\ Answered(new)
      BY <1>0, <3>1 DEF RequestRecords, Stages, StageOK, Answered
    <3> QED
      BY <3>1, <3>2
  <2> QED
    BY <2>1, <2>2, <2>3, <2>4, <2>5, <2>6, <2>7, <2>8
<1> QED
  BY OneRequestMoves

\* A stream's error that nobody hears takes every request with it.
LEMMA UncaughtErrorKeeps ==
    ASSUME HttpIInv, NEW r \in Requests, UncaughtStreamError(r)
    PROVE  HttpIInv'
<1> DEFINE remains(o) == IF request[o].stage \in {"idle", "over"} THEN request[o]
                         ELSE [request[o] EXCEPT !.stage = "died", !.timer = IF @ = "runs" THEN "none" ELSE @]
<1>1. request' = [o \in Requests |-> remains(o)] /\ setting' = NotSetting /\ UNCHANGED <<cached, interactive>>
  BY DEF UncaughtStreamError
<1>2. ASSUME NEW o \in Requests PROVE remains(o) \in RequestRecords /\ StageOK(remains(o)) /\ Answered(remains(o))
  <2>1. request[o] \in RequestRecords /\ StageOK(request[o]) /\ Answered(request[o])
    BY DEF HttpIInv
  <2> DEFINE died == [request[o] EXCEPT !.stage = "died", !.timer = IF @ = "runs" THEN "none" ELSE @]
  <2>2. remains(o) = request[o] \/ (remains(o) = died /\ request[o].stage \notin {"idle", "over"})
    OBVIOUS
  <2>3. /\ died.stage = "died" /\ died.timer # "runs" /\ died.answer = request[o].answer /\ died.pipe = request[o].pipe
        /\ died.status = request[o].status /\ died.coded = request[o].coded /\ died.file = request[o].file
        /\ died.timeout = request[o].timeout
    BY <2>1 DEF RequestRecords
  <2>4. died \in RequestRecords
    BY <2>1 DEF RequestRecords, Stages
  <2> HIDE DEF died, remains
  <2>5. request[o].stage \notin {"idle", "over"} => StageOK(died) /\ Answered(died)
    BY <2>1, <2>3 DEF StageOK, Answered
  <2> QED
    BY <2>1, <2>2, <2>4, <2>5
<1> HIDE DEF remains
<1>3. request' \in [Requests -> RequestRecords] /\ \A o \in Requests : StageOK(request'[o]) /\ Answered(request'[o])
  BY <1>1, <1>2
<1>4. (request \in [Requests -> RequestRecords] /\ \A o \in Requests : StageOK(request[o]) /\ Answered(request[o]))'
  BY <1>3, Zenon
<1>5. (SettingOK /\ CachedProxyOK /\ interactive \in BOOLEAN)'
  BY <1>1, NotSettingIsTyped, Zenon DEF HttpIInv, SettingOK, CachedProxyOK, PasswordRequired
<1> QED
  BY <1>4, <1>5, Zenon DEF HttpIInv

\* What comes after a URL or an answer.
LEMMA NextStepIsTyped ==
    ASSUME NEW s \in SettingRecords
    PROVE  /\ NextStep(s) \in SettingSteps
           /\ [s EXCEPT !.step = NextStep(s)] \in SettingRecords
           /\ NextStep(s) = "saves" => ~PasswordRequired([s EXCEPT !.step = NextStep(s)])
<1>1. NextStep(s) \in SettingSteps /\ (NextStep(s) = "saves" => ~PasswordRequired(s))
  BY DEF NextStep, SettingSteps
<1> DEFINE step == NextStep(s)
<1> HIDE DEF step
<1>2. step \in SettingSteps => [s EXCEPT !.step = step] \in SettingRecords
  BY DEF SettingRecords
<1>3. PasswordRequired([s EXCEPT !.step = step]) <=> PasswordRequired(s)
  BY DEF SettingRecords, PasswordRequired
<1> QED
  BY <1>1, <1>2, <1>3 DEF step

\* A proxy set that goes to its next step keeps what SettingOK says.
LEMMA GoesToNextStep ==
    ASSUME NEW s \in SettingRecords, setting' = [s EXCEPT !.step = NextStep(s)]
    PROVE  SettingOK'
<1>1. [s EXCEPT !.step = NextStep(s)].step = NextStep(s)
  BY DEF SettingRecords
<1> QED
  BY <1>1, NextStepIsTyped DEF SettingOK, PasswordRequired

LEMMA OtherStepKeeps ==
    ASSUME NEW s \in SettingRecords, NEW step \in {"idle", "asksUrl", "fails"}, setting' = [s EXCEPT !.step = step]
    PROVE  SettingOK'
BY DEF SettingRecords, SettingSteps, SettingOK

\* The URL is there.
LEMMA UrlIsTaken ==
    ASSUME NEW s \in SettingRecords, NEW u \in Urls, setting' = WithUrl(s, u)
    PROVE  SettingOK'
<1> DEFINE merged == [s EXCEPT !.url = u, !.user = Or(s.user, u.user), !.password = Or(s.password, u.password)]
<1>1. Or(s.user, u.user) \in Users /\ Or(s.password, u.password) \in Passwords
  BY HttpAssumption DEF Or, SettingRecords
<1>2. merged \in SettingRecords
  BY <1>1 DEF SettingRecords
<1>3. WithUrl(s, u) =
        IF ~ u.valid THEN [s EXCEPT !.step = IF interactive THEN "asksUrl" ELSE "fails"]
        ELSE IF Mismatch(u, s) THEN [s EXCEPT !.step = "fails"]
        ELSE IF ~ interactive /\ (NoPort(u) \/ PasswordRequired(merged)) THEN [merged EXCEPT !.step = "fails"]
        ELSE [merged EXCEPT !.step = NextStep(merged)]
  BY DEF WithUrl
<1> HIDE DEF merged
<1>4. \/ \E step \in {"asksUrl", "fails"} : setting' = [s EXCEPT !.step = step]
      \/ setting' = [merged EXCEPT !.step = "fails"]
      \/ setting' = [merged EXCEPT !.step = NextStep(merged)]
  BY <1>3
<1> QED
  BY <1>2, <1>4, OtherStepKeeps, GoesToNextStep

\* The questions of proxy set, its end, and proxy clear.
LEMMA ProxyKeeps ==
    ASSUME HttpIInv,
           \/ ProxySet \/ AnswerUrl \/ AnswerPort \/ AnswerUser \/ AnswerPassword \/ SetCache \/ ProxySetFails \/ ProxyClear
    PROVE  HttpIInv'
<1>0. request' = request /\ interactive' = interactive
  BY DEF ProxySet, AnswerUrl, AnswerPort, AnswerUser, AnswerPassword, SetCache, ProxySetFails, ProxyClear
<1>1. SettingOK' /\ CachedProxyOK'
  <2>1. CASE ProxySet
    <3>1. PICK login \in Logins :
            LET s == [NotSetting EXCEPT !.user = login.user, !.password = login.password]
            IN \/ \E u \in Urls : setting' = WithUrl(s, u)
               \/ setting' = [s EXCEPT !.step = IF interactive THEN "asksUrl" ELSE "fails"]
      BY <2>1 DEF ProxySet
    <3> DEFINE s == [NotSetting EXCEPT !.user = login.user, !.password = login.password]
    <3>2. login.user \in Users /\ login.password \in Passwords
      BY DEF Users, Passwords
    <3>3. s \in SettingRecords
      BY <3>2, NotSettingIsTyped DEF SettingRecords
    <3> HIDE DEF s
    <3>4. \/ \E u \in Urls : setting' = WithUrl(s, u)
          \/ \E step \in {"asksUrl", "fails"} : setting' = [s EXCEPT !.step = step]
      BY <3>1 DEF s
    <3>5. SettingOK'
      BY <3>3, <3>4, UrlIsTaken, OtherStepKeeps
    <3> QED
      BY <2>1, <3>5, Zenon DEF ProxySet, HttpIInv, CachedProxyOK
  <2>2. CASE AnswerUrl
    <3>1. SettingOK'
      BY <2>2, UrlIsTaken DEF AnswerUrl, HttpIInv, SettingOK
    <3> QED
      BY <2>2, <3>1, Zenon DEF AnswerUrl, HttpIInv, CachedProxyOK
  <2>3. CASE AnswerPort
    <3> DEFINE s == [setting EXCEPT !.asked = TRUE]
    <3>1. s \in SettingRecords /\ setting' = [s EXCEPT !.step = NextStep(s)]
      BY <2>3 DEF AnswerPort, HttpIInv, SettingOK, SettingRecords
    <3> HIDE DEF s
    <3>2. SettingOK'
      BY <3>1, GoesToNextStep
    <3> QED
      BY <2>3, <3>2, Zenon DEF AnswerPort, HttpIInv, CachedProxyOK
  <2>4. CASE AnswerUser
    <3>1. PICK user \in Users : LET s == [setting EXCEPT !.user = user] IN setting' = [s EXCEPT !.step = NextStep(s)]
      BY <2>4 DEF AnswerUser
    <3> DEFINE s == [setting EXCEPT !.user = user]
    <3>2. s \in SettingRecords /\ setting' = [s EXCEPT !.step = NextStep(s)]
      BY <3>1 DEF HttpIInv, SettingOK, SettingRecords
    <3> HIDE DEF s
    <3>3. SettingOK'
      BY <3>2, GoesToNextStep
    <3> QED
      BY <2>4, <3>3, Zenon DEF AnswerUser, HttpIInv, CachedProxyOK
  <2>5. CASE AnswerPassword
    <3>1. PICK password \in Passwords : LET s == [setting EXCEPT !.password = password] IN setting' = [s EXCEPT !.step = NextStep(s)]
      BY <2>5 DEF AnswerPassword
    <3> DEFINE s == [setting EXCEPT !.password = password]
    <3>2. s \in SettingRecords /\ setting' = [s EXCEPT !.step = NextStep(s)]
      BY <3>1 DEF HttpIInv, SettingOK, SettingRecords
    <3> HIDE DEF s
    <3>3. SettingOK'
      BY <3>2, GoesToNextStep
    <3> QED
      BY <2>5, <3>3, Zenon DEF AnswerPassword, HttpIInv, CachedProxyOK
  <2>6. CASE SetCache
    BY <2>6, NotSettingIsTyped DEF SetCache, HttpIInv, SettingOK, CachedProxyOK, SettingRecords, PasswordRequired
  <2>7. CASE ProxySetFails
    BY <2>7, NotSettingIsTyped DEF ProxySetFails, HttpIInv, SettingOK, CachedProxyOK, PasswordRequired
  <2>8. CASE ProxyClear
    BY <2>8 DEF ProxyClear, HttpIInv, SettingOK, CachedProxyOK, PasswordRequired
  <2> QED
    BY <2>1, <2>2, <2>3, <2>4, <2>5, <2>6, <2>7, <2>8
<1> QED
  BY <1>0, <1>1, Zenon DEF HttpIInv

LEMMA HttpNextIInv == HttpIInv /\ [HttpNext]_httpVars => HttpIInv'
<1> SUFFICES ASSUME HttpIInv, [HttpNext]_httpVars PROVE HttpIInv'
  OBVIOUS
<1>1. CASE UNCHANGED httpVars
  BY <1>1, Zenon DEF httpVars, HttpIInv, SettingOK, CachedProxyOK, PasswordRequired
<1>2. CASE HttpNext
  BY <1>2, RequestKeeps, UncaughtErrorKeeps, ProxyKeeps DEF HttpNext
<1> QED
  BY <1>1, <1>2

\* The client and the proxy keep their inductive invariant (http-client.ts:18-201, proxy-service.ts).
THEOREM HttpInvariant == HttpSpec => []HttpIInv
BY HttpInitIInv, HttpNextIInv, PTL DEF HttpSpec

\* Every variable keeps its type, and a cached proxy with a user has a password
\* (commands/proxy/proxy-set.ts).
THEOREM HttpTypeCorrect == HttpSpec => []HttpTypeOK
<1>1. HttpIInv => HttpTypeOK
  BY DEF HttpIInv, HttpTypeOK, SettingOK, CachedProxyOK, SettingRecords, SettingSteps, RequestRecords, Stages
<1> QED
  BY <1>1, HttpInvariant, PTL

\* For any requests whose proxies, connections, streams and timers fail in any order: a
\* caller with a timeout is answered or its timer runs, unless the process has died of
\* the error of a stream; and a response that is handed over was a success and is in
\* the caller's stream as far as it was received (http-client.ts:44-201).
THEOREM HttpRequestsAreAnswered == HttpSpec => []RequestsAreAnswered
<1>1. HttpIInv => RequestsAreAnswered
  BY DEF HttpIInv, Answered, RequestsAreAnswered
<1> QED
  BY <1>1, HttpInvariant, PTL

-----------------------------------------------------------------------------
(***************************************************************************)
(* The TypeScript service.  What is remembered for all projects is, when   *)
(* it is a project's compiler, one that a call has found new enough; it    *)
(* may have been replaced since.                                           *)
(***************************************************************************)
Compilers == Projects \cup Transpiles \cup {NoCompiler, CliCompiler}
TranspileSteps == {"idle", "installs", "compiles", "done", "failed"}
TranspileRecords ==
    [step : TranspileSteps, project : Projects \cup {NoCompiler}, compiler : Compilers, version : Versions, files : BOOLEAN]

\* What RunsAFitCompiler says of one call.
FitRun(run, finds, installations) ==
    run.step \in {"compiles", "done"} =>
        /\ run.compiler \in finds \cup installations \cup {CliCompiler}
        /\ run.version # "none" /\ (run.version = "old" => run.compiler \in finds)

TypeScriptIInv ==
    /\ has \in [Projects -> Versions] /\ found \subseteq Projects /\ installed \subseteq Transpiles
    /\ typeScriptModuleFilePath \in found \cup Transpiles \cup {NoCompiler, CliCompiler}
    /\ transpile \in [Transpiles -> TranspileRecords]
    /\ \A t \in Transpiles :
          /\ FitRun(transpile[t], found, installed)
          /\ transpile[t].step \notin {"idle", "failed"} => transpile[t].project \in Projects
    /\ watchProcess \in Projects \cup {NoCompiler} /\ watch \in BOOLEAN

LEMMA NotTranspilingIsTyped == NotTranspiling \in TranspileRecords /\ NotTranspiling.step = "idle"
BY DEF NotTranspiling, TranspileRecords, TranspileSteps, Compilers, Versions

LEMMA TypeScriptInitIInv == TypeScriptInit => TypeScriptIInv
BY NotTranspilingIsTyped DEF TypeScriptInit, TypeScriptIInv, FitRun

\* One call moves; what is installed for the others stays installed, and what was
\* found stays found.
LEMMA OneCallMoves ==
    ASSUME TypeScriptIInv, NEW t \in Transpiles, NEW run \in TranspileRecords,
           transpile' = [transpile EXCEPT ![t] = run], FitRun(run, found', installed'),
           run.step \notin {"idle", "failed"} => run.project \in Projects,
           installed \subseteq installed', installed' \subseteq Transpiles, UNCHANGED <<has, watch>>,
           found \subseteq found', found' \subseteq Projects,
           typeScriptModuleFilePath' \in found' \cup Transpiles \cup {NoCompiler, CliCompiler},
           watchProcess' \in Projects \cup {NoCompiler}
    PROVE  TypeScriptIInv'
<1>1. transpile' \in [Transpiles -> TranspileRecords] /\ \A o \in Transpiles : transpile'[o] = IF o = t THEN run ELSE transpile[o]
  BY DEF TypeScriptIInv
<1>2. ASSUME NEW o \in Transpiles, o # t
      PROVE  FitRun(transpile[o], found', installed') /\ (transpile[o].step \notin {"idle", "failed"} => transpile[o].project \in Projects)
  BY DEF TypeScriptIInv, FitRun
<1> QED
  BY <1>1, <1>2 DEF TypeScriptIInv

\* The compiler that is started is there, and when it is an old one of a project it
\* was found new enough before.
LEMMA CompileIsFit ==
    ASSUME TypeScriptIInv, NEW t \in Transpiles, NEW record \in TranspileRecords, record.project \in Projects,
           NEW compiler \in found' \cup Transpiles \cup {CliCompiler}, Compile(t, record, compiler),
           found \subseteq found', found' \subseteq Projects,
           installed \subseteq installed', installed' \subseteq Transpiles, UNCHANGED <<has, watchProcess, watch>>
    PROVE  TypeScriptIInv'
<1> DEFINE fits == PassesFiles(record.project, compiler)
           version == Version(compiler)'
           run == IF version = "none" THEN [record EXCEPT !.step = "failed"]
                  ELSE [record EXCEPT !.step = "compiles", !.compiler = compiler, !.version = version, !.files = fits]
<1>1. transpile' = [transpile EXCEPT ![t] = run] /\ typeScriptModuleFilePath' = compiler
  BY DEF Compile
<1>2. fits \in BOOLEAN
  BY DEF PassesFiles
<1>3. /\ version \in Versions
      /\ version # "none" => compiler \in found' \cup installed' \cup {CliCompiler}
      /\ version = "old" => compiler \in found'
  BY TypeScriptAssumption DEF Version, TypeScriptIInv, Versions
<1>4. compiler \in Compilers
  BY TypeScriptAssumption DEF Compilers
<1>5. run \in TranspileRecords /\ FitRun(run, found', installed') /\ (run.step # "failed" => run.project \in Projects)
  <2> HIDE DEF fits, version
  <2> QED
    BY <1>2, <1>3, <1>4 DEF TranspileRecords, TranspileSteps, FitRun
<1> HIDE DEF run
<1> QED
  BY <1>1, <1>5, OneCallMoves DEF TypeScriptIInv

LEMMA TranspileKeeps ==
    ASSUME TypeScriptIInv, NEW t \in Transpiles, Transpile(t)
    PROVE  TypeScriptIInv'
<1>1. PICK p \in Projects, local \in BOOLEAN :
          LET record == [NotTranspiling EXCEPT !.project = p]
          IN /\ found' = IF has[p] = "new" THEN found \cup {p} ELSE found
             /\ \/ OwnCompiler(p) /\ Compile(t, record, p)
                \/ /\ ~ OwnCompiler(p) /\ typeScriptModuleFilePath # NoCompiler
                   /\ Compile(t, record, typeScriptModuleFilePath)
                \/ /\ ~ OwnCompiler(p) /\ typeScriptModuleFilePath = NoCompiler /\ local
                   /\ Compile(t, record, CliCompiler)
                \/ /\ ~ OwnCompiler(p) /\ typeScriptModuleFilePath = NoCompiler /\ ~ local
                   /\ transpile' = [transpile EXCEPT ![t] = [record EXCEPT !.step = "installs"]]
                   /\ UNCHANGED typeScriptModuleFilePath
  BY DEF Transpile
<1>2. UNCHANGED <<has, installed, watchProcess, watch>>
  BY DEF Transpile
<1> DEFINE record == [NotTranspiling EXCEPT !.project = p]
<1>3. record \in TranspileRecords /\ record.project = p
  BY NotTranspilingIsTyped DEF TranspileRecords
<1> HIDE DEF record
<1>8. found \subseteq found' /\ found' \subseteq Projects /\ (OwnCompiler(p) => p \in found')
  BY <1>1 DEF OwnCompiler, TypeScriptIInv
<1>4. CASE OwnCompiler(p) /\ Compile(t, record, p)
  BY <1>2, <1>3, <1>4, <1>8, CompileIsFit DEF TypeScriptIInv
<1>5. CASE typeScriptModuleFilePath # NoCompiler /\ Compile(t, record, typeScriptModuleFilePath)
  BY <1>2, <1>3, <1>5, <1>8, CompileIsFit DEF TypeScriptIInv
<1>6. CASE Compile(t, record, CliCompiler)
  BY <1>2, <1>3, <1>6, <1>8, CompileIsFit DEF TypeScriptIInv
<1>7. CASE /\ transpile' = [transpile EXCEPT ![t] = [record EXCEPT !.step = "installs"]]
           /\ UNCHANGED typeScriptModuleFilePath
  <2> DEFINE run == [record EXCEPT !.step = "installs"]
  <2>1. run \in TranspileRecords /\ run.step = "installs" /\ run.project = p
    BY <1>3 DEF TranspileRecords, TranspileSteps
  <2> HIDE DEF run
  <2>2. transpile' = [transpile EXCEPT ![t] = run]
    BY <1>7 DEF run
  <2> QED
    BY <1>2, <1>7, <1>8, <2>1, <2>2, OneCallMoves DEF TypeScriptIInv, FitRun
<1> QED
  BY <1>1, <1>4, <1>5, <1>6, <1>7 DEF record

LEMMA TypeScriptNextIInv == TypeScriptIInv /\ [TypeScriptNext]_typeScriptVars => TypeScriptIInv'
<1> SUFFICES ASSUME TypeScriptIInv, [TypeScriptNext]_typeScriptVars PROVE TypeScriptIInv'
  OBVIOUS
<1>1. CASE UNCHANGED typeScriptVars
  BY <1>1 DEF typeScriptVars, TypeScriptIInv
<1>2. ASSUME NEW t \in Transpiles, Transpile(t) PROVE TypeScriptIInv'
  BY <1>2, TranspileKeeps
<1>3. ASSUME NEW t \in Transpiles, InstallDone(t) PROVE TypeScriptIInv'
  <2>1. installed \subseteq installed' /\ installed' \subseteq Transpiles
    BY <1>3 DEF InstallDone, TypeScriptIInv
  <2>2. transpile[t] \in TranspileRecords /\ transpile[t].project \in Projects
    BY <1>3 DEF InstallDone, TypeScriptIInv
  <2> QED
    BY <1>3, <2>1, <2>2, CompileIsFit DEF InstallDone, TypeScriptIInv
<1>4. ASSUME NEW t \in Transpiles, CompileEnds(t) PROVE TypeScriptIInv'
  <2>1. PICK failed \in BOOLEAN :
          /\ transpile' = [transpile EXCEPT ![t].step = IF failed THEN "failed" ELSE "done"]
          /\ watchProcess' = IF failed \/ watchProcess # NoCompiler \/ ~ watch THEN watchProcess ELSE transpile[t].project
    BY <1>4 DEF CompileEnds
  <2>2. transpile[t].step = "compiles" /\ UNCHANGED <<has, found, installed, typeScriptModuleFilePath, watch>>
    BY <1>4 DEF CompileEnds
  <2> DEFINE run == [transpile[t] EXCEPT !.step = IF failed THEN "failed" ELSE "done"]
  <2>3. transpile' = [transpile EXCEPT ![t] = run]
    BY <2>1 DEF TypeScriptIInv
  <2>4. /\ transpile[t] \in TranspileRecords /\ FitRun(transpile[t], found, installed)
        /\ transpile[t].project \in Projects
    BY <2>2 DEF TypeScriptIInv
  <2>5. run \in TranspileRecords /\ FitRun(run, found, installed) /\ run.project \in Projects
    BY <2>2, <2>4 DEF TranspileRecords, TranspileSteps, FitRun
  <2> HIDE DEF run
  <2> QED
    BY <2>1, <2>2, <2>3, <2>4, <2>5, OneCallMoves DEF TypeScriptIInv
<1>5. ASSUME NEW t \in Transpiles, TranspileReturns(t) PROVE TypeScriptIInv'
  BY <1>5, NotTranspilingIsTyped, OneCallMoves DEF TranspileReturns, TypeScriptIInv, FitRun
<1>6. ASSUME NEW p \in Projects, CompilerComesOrGoes(p) PROVE TypeScriptIInv'
  BY <1>6 DEF CompilerComesOrGoes, TypeScriptIInv
<1> QED
  BY <1>1, <1>2, <1>3, <1>4, <1>5, <1>6 DEF TypeScriptNext

\* The TypeScript service keeps its inductive invariant (typescript-service.ts:40-207).
THEOREM TypeScriptInvariant == TypeScriptSpec => []TypeScriptIInv
BY TypeScriptInitIInv, TypeScriptNextIInv, PTL DEF TypeScriptSpec

\* Every variable keeps its type.
THEOREM TypeScriptTypeCorrect == TypeScriptSpec => []TypeScriptTypeOK
<1>1. TypeScriptIInv => TypeScriptTypeOK
  BY TypeScriptAssumption DEF TypeScriptIInv, TypeScriptTypeOK, TranspileRecords, TranspileSteps, Compilers
<1> QED
  BY <1>1, TypeScriptInvariant, PTL

\* For any projects and calls, whatever compilers come, go and are replaced by other
\* versions: a transpilation never runs a compiler that was not there, and one that is
\* too old only when a call had found what it replaces new enough
\* (typescript-service.ts:138-173).
THEOREM TypeScriptRunsAFitCompiler == TypeScriptSpec => []RunsAFitCompiler
<1>1. TypeScriptIInv => RunsAFitCompiler
  BY DEF TypeScriptIInv, FitRun, RunsAFitCompiler
<1> QED
  BY <1>1, TypeScriptInvariant, PTL

-----------------------------------------------------------------------------
(***************************************************************************)
(* The search for plugins.  What a search has shown is a stretch of its    *)
(* results, and while the user is asked for more it ends where the next    *)
(* page begins.                                                            *)
(***************************************************************************)
Found == ToSet(OnNpm)
Sources == {"npmjs", "registry", "npm"}

\* The results of the source, as ShownInOrder has them.
Results == IF source = "npmjs" THEN OnNpm ELSE plugins

\* Where a page begins among them.
PageStart(page) == IF source = "npmjs" THEN (page - 1) * SiteCount ELSE page * CountToShow
PageOf(page) == Slice(OnNpm, (page - 1) * SiteCount, page * SiteCount)

SearchOK ==
    /\ toAsk \in Seq(Sources) /\ source \in Sources
    /\ loadedPages \in [1 .. MaxPage -> LoadedPages]
    /\ \A page \in 1 .. MaxPage : loadedPages[page] \in {NoPlugins, PageOf(page)}
    /\ source = "registry" => plugins \in FromNpmRegistry
    /\ source = "npm" => plugins \in FromNpmSearch
PrintingOK ==
    /\ printing \in {"no", "asks", "failed"}
    /\ nextPage \in 1 .. MaxPage + 1 /\ firstPage \in 1 .. MaxPage
    /\ toAsk # <<>> => shown = <<>> /\ printing # "asks"

\* The stretch that was shown.
Stretch ==
    shown # <<>> =>
        /\ Results \in Seq(Found)
        /\ \E from, to \in Nat :
              /\ from <= to /\ shown = Slice(Results, from, to)
              /\ firstPage = 1 /\ source # "npm" => from = 0
AskedForMore ==
    printing = "asks" =>
        /\ Results \in Seq(Found) /\ firstPage < nextPage /\ shown # <<>>
        /\ source # "registry" => shown = Slice(Results, PageStart(firstPage), PageStart(nextPage))
        /\ source = "registry" => nextPage # 1 /\ shown = plugins

PluginsIInv == SearchOK /\ PrintingOK /\ Stretch /\ AskedForMore

\* A slice, and two that follow each other.
LEMMA SliceIsSubSeq ==
    ASSUME NEW S, NEW list \in Seq(S), NEW from \in Nat, NEW to \in Nat, from <= to
    PROVE  /\ Slice(list, from, to) \in Seq(S)
           /\ from >= Len(list) => Slice(list, from, to) = <<>>
           /\ Slice(list, from, to) # <<>> =>
                 /\ from < to /\ from < Len(list)
                 /\ Slice(list, from, to) = Slice(list, from, from + Len(Slice(list, from, to)))
<1> DEFINE end == IF to < Len(list) THEN to ELSE Len(list)
<1>1. Len(list) \in Nat /\ DOMAIN list = 1 .. Len(list) /\ \A i \in 1 .. Len(list) : list[i] \in S
  BY LenProperties, ElementOfSeq
<1>2. end \in Nat /\ end <= Len(list) /\ end <= to
  BY <1>1
<1>3. Slice(list, from, to) = SubSeq(list, from + 1, end)
  BY DEF Slice
<1> HIDE DEF end
<1>4. \A i \in from + 1 .. end : list[i] \in S
  BY <1>1, <1>2
<1>5. SubSeq(list, from + 1, end) \in Seq(S) /\ Len(SubSeq(list, from + 1, end)) = IF from + 1 <= end THEN end - from ELSE 0
  BY <1>2, <1>4, SubSeqProperties
<1>6. end < from + 1 => SubSeq(list, from + 1, end) = <<>>
  BY <1>2, SubSeqEmpty
<1>7. from >= Len(list) => end < from + 1
  BY <1>1, <1>2
<1>8. ASSUME SubSeq(list, from + 1, end) # <<>>
      PROVE  /\ from < to /\ from < Len(list)
             /\ SubSeq(list, from + 1, end) = Slice(list, from, from + Len(SubSeq(list, from + 1, end)))
  <2>1. from + 1 <= end
    BY <1>2, <1>6, <1>8
  <2>2. from + Len(SubSeq(list, from + 1, end)) = end
    BY <1>2, <1>5, <2>1
  <2>3. Slice(list, from, end) = SubSeq(list, from + 1, end)
    BY <1>1, <1>2 DEF Slice
  <2> QED
    BY <1>1, <1>2, <2>1, <2>2, <2>3
<1> QED
  BY <1>3, <1>5, <1>6, <1>7, <1>8

LEMMA SlicesAdjoin ==
    ASSUME NEW S, NEW list \in Seq(S), NEW from \in Nat, NEW mid \in Nat, NEW to \in Nat, from <= mid, mid <= to,
           Slice(list, from, mid) # <<>>
    PROVE  Slice(list, from, mid) \o Slice(list, mid, to) = Slice(list, from, to)
<1>1. Len(list) \in Nat /\ from < Len(list)
  BY SliceIsSubSeq, LenProperties
<1>2. CASE mid < Len(list)
  <2> DEFINE end == IF to < Len(list) THEN to ELSE Len(list)
  <2>1. end \in mid .. Len(list) /\ from + 1 \in 1 .. Len(list) + 1 /\ mid \in (from + 1) - 1 .. Len(list)
    BY <1>1, <1>2
  <2>2. Slice(list, from, mid) = SubSeq(list, from + 1, mid) /\ Slice(list, mid, to) = SubSeq(list, mid + 1, end)
        /\ Slice(list, from, to) = SubSeq(list, from + 1, end)
    BY <1>2 DEF Slice
  <2> HIDE DEF end
  <2>3. SubSeq(list, from + 1, mid) \o SubSeq(list, mid + 1, end) = SubSeq(list, from + 1, end)
    BY <2>1, ConcatAdjacentSubSeq
  <2> QED
    BY <2>2, <2>3
<1>3. CASE ~(mid < Len(list))
  <2>1. Slice(list, mid, to) = <<>>
    BY <1>1, <1>3, SliceIsSubSeq
  <2>2. Slice(list, from, mid) = Slice(list, from, to)
    BY <1>1, <1>3 DEF Slice
  <2>3. Slice(list, from, mid) \in Seq(S)
    BY SliceIsSubSeq
  <2> QED
    BY <2>1, <2>2, <2>3, ConcatEmptySeq
<1> QED
  BY <1>2, <1>3

\* A whole list is a slice of itself.
LEMMA WholeIsSlice ==
    ASSUME NEW S, NEW list \in Seq(S)
    PROVE  Len(list) \in Nat /\ Slice(list, 0, Len(list)) = list
BY LenProperties, SubSeqFull DEF Slice

\* A page is one of the tables that may be loaded.
LEMMA SlicesAreLoaded ==
    ASSUME NEW from \in Nat, NEW to \in Nat, from <= to
    PROVE  Slice(OnNpm, from, to) \in LoadedPages
<1>1. OnNpm \in Seq(Found) /\ Len(OnNpm) \in Nat
  BY PluginsAssumption, LenProperties DEF Found
<1>2. CASE from < Len(OnNpm)
  <2> DEFINE end == IF to < Len(OnNpm) THEN to ELSE Len(OnNpm)
  <2>1. end \in 0 .. Len(OnNpm) /\ from \in 0 .. Len(OnNpm) /\ Slice(OnNpm, from, to) = Slice(OnNpm, from, end)
    BY <1>1, <1>2 DEF Slice
  <2> QED
    BY <2>1 DEF LoadedPages
<1>3. CASE ~(from < Len(OnNpm))
  <2>1. Slice(OnNpm, from, to) = <<>> /\ Slice(OnNpm, Len(OnNpm), Len(OnNpm)) = <<>>
    BY <1>1, <1>3, SliceIsSubSeq
  <2> QED
    BY <1>1, <2>1 DEF LoadedPages
<1> QED
  BY <1>2, <1>3

\* Where pages begin.
LEMMA PagesFollow ==
    ASSUME source \in Sources, NEW page \in Nat \ {0}
    PROVE  /\ (page - 1) * SiteCount \in Nat /\ page * SiteCount \in Nat
           /\ (page - 1) * SiteCount <= page * SiteCount
           /\ PageStart(page) \in Nat /\ PageStart(page + 1) \in Nat /\ PageStart(page) <= PageStart(page + 1)
           /\ source = "npmjs" => PageOf(page) = Slice(Results, PageStart(page), PageStart(page + 1))
           /\ source = "npm" => Slice(plugins, page * CountToShow, page * CountToShow + CountToShow)
                                  = Slice(Results, PageStart(page), PageStart(page + 1))
           /\ source = "npmjs" => PageStart(1) = 0
<1>1. SiteCount \in Nat /\ CountToShow \in Nat
  BY PluginsAssumption
<1>2. /\ (page - 1) * SiteCount \in Nat /\ page * SiteCount = (page - 1) * SiteCount + SiteCount
      /\ page * CountToShow \in Nat /\ (page + 1) * CountToShow = page * CountToShow + CountToShow
  BY <1>1
<1>3. (page + 1) - 1 = page /\ (1 - 1) * SiteCount = 0
  BY <1>1
<1> QED
  BY <1>1, <1>2, <1>3 DEF PageStart, PageOf, Results

LEMMA PagesAreOrdered ==
    ASSUME NEW page \in Nat \ {0}, NEW later \in Nat \ {0}, page <= later
    PROVE  PageStart(page) <= PageStart(later)
<1>1. \A c, k, d \in Nat : k * c <= (k + d) * c
  OBVIOUS
<1>2. SiteCount \in Nat /\ CountToShow \in Nat
  BY PluginsAssumption
<1> DEFINE d == later - page
<1>3. d \in Nat /\ later = page + d /\ later - 1 = (page - 1) + d /\ page - 1 \in Nat
  OBVIOUS
<1> HIDE DEF d
<1>4. page * CountToShow <= (page + d) * CountToShow /\ (page - 1) * SiteCount <= ((page - 1) + d) * SiteCount
  BY <1>1, <1>2, <1>3
<1> QED
  BY <1>3, <1>4 DEF PageStart

\* What a source that has plugins has found.
LEMMA ResultsAreTyped ==
    ASSUME SearchOK, HasPlugins
    PROVE  Results \in Seq(Found)
<1>1. OnNpm \in Seq(Found)
  BY PluginsAssumption DEF Found
<1>2. ASSUME NEW aPlugin \in Found PROVE <<aPlugin>> \in Seq(Found)
  OBVIOUS
<1> QED
  BY <1>1, <1>2 DEF SearchOK, HasPlugins, Sources, Results, FromNpmRegistry, FromNpmSearch, Found

\* The next page is loaded: it is the next stretch of the results, or null.
LEMMA LoadPageLoads ==
    ASSUME SearchOK, nextPage \in 1 .. MaxPage + 1, NEW loaded, LoadPage(loaded)
    PROVE  /\ SearchOK' /\ nextPage \in 1 .. MaxPage /\ nextPage' = nextPage + 1 /\ nextPage' \in 1 .. MaxPage + 1
           /\ toAsk' = toAsk /\ source' = source /\ Results' = Results
           /\ source # "npmjs" => plugins' = plugins
           /\ source # "registry" => loaded \in {NoPlugins, Slice(Results, PageStart(nextPage), PageStart(nextPage + 1))}
           /\ source = "registry" => loaded = IF nextPage = 1 THEN plugins ELSE NoPlugins
<1>1. /\ nextPage \in 1 .. MaxPage /\ nextPage' = nextPage + 1 /\ nextPage' \in 1 .. MaxPage + 1
      /\ toAsk' = toAsk /\ source' = source
  BY PluginsAssumption DEF LoadPage
<1>2. nextPage \in Nat \ {0}
  BY <1>1
<1>3. source # "npmjs" => plugins' = plugins /\ loadedPages' = loadedPages
  BY DEF LoadPage
<1>4. Results' = Results
  BY <1>1, <1>3 DEF Results
<1>5. CASE source = "npmjs"
  <2>1. loaded \in SitePages(nextPage)
    BY <1>5 DEF LoadPage, GetPlugins
  <2>2. loaded \in {NoPlugins, PageOf(nextPage)}
    BY <1>1, <2>1 DEF SitePages, SearchOK, GetPluginsFromNpmjs, PageOf
  <2>3. PageOf(nextPage) \in LoadedPages /\ NoPlugins \in LoadedPages
    BY <1>2, <1>5, PagesFollow, SlicesAreLoaded DEF PageOf, LoadedPages, SearchOK
  <2>4. \/ loadedPages' = loadedPages
        \/ loadedPages' = [loadedPages EXCEPT ![nextPage] = loaded]
    BY DEF LoadPage
  <2>5. /\ loadedPages' \in [1 .. MaxPage -> LoadedPages]
        /\ \A page \in 1 .. MaxPage : loadedPages'[page] \in {NoPlugins, PageOf(page)}
    BY <1>1, <2>2, <2>3, <2>4 DEF SearchOK
  <2>6. SearchOK'
    BY <1>1, <1>5, <2>5 DEF SearchOK, PageOf
  <2>7. loaded \in {NoPlugins, Slice(Results, PageStart(nextPage), PageStart(nextPage + 1))}
    BY <1>2, <1>5, <2>2, PagesFollow DEF SearchOK
  <2> QED
    BY <1>1, <1>4, <1>5, <2>6, <2>7
<1>6. CASE source = "registry"
  <2>1. loaded = IF nextPage = 1 THEN plugins ELSE NoPlugins
    BY <1>6 DEF LoadPage, GetPlugins
  <2> QED
    BY <1>1, <1>3, <1>4, <1>6, <2>1 DEF SearchOK, PageOf
<1>7. CASE source = "npm"
  <2>1. loaded = Slice(plugins, nextPage * CountToShow, nextPage * CountToShow + CountToShow)
    BY <1>7 DEF LoadPage, GetPlugins
  <2>2. loaded = Slice(Results, PageStart(nextPage), PageStart(nextPage + 1))
    BY <1>2, <1>7, <2>1, PagesFollow DEF SearchOK
  <2> QED
    BY <1>1, <1>3, <1>4, <1>7, <2>2 DEF SearchOK, PageOf
<1> QED
  BY <1>5, <1>6, <1>7 DEF SearchOK, Sources

LEMMA PluginsInitIInv == PluginsInit => PluginsIInv
<1> SUFFICES ASSUME PluginsInit PROVE PluginsIInv
  OBVIOUS
<1>1. toAsk \in Seq(Sources)
  <2>1. <<"npmjs", "registry", "npm">> \in Seq(Sources) /\ <<"registry", "npmjs", "registry", "npm">> \in Seq(Sources)
    BY DEF Sources
  <2> QED
    BY <2>1 DEF PluginsInit, Searches
<1>2. SearchOK
  BY <1>1 DEF PluginsInit, SearchOK, Sources, LoadedPages
<1>3. PrintingOK /\ Stretch /\ AskedForMore
  BY PluginsAssumption DEF PluginsInit, PrintingOK, Stretch, AskedForMore
<1> QED
  BY <1>2, <1>3 DEF PluginsIInv

LEMMA SearchKeeps ==
    ASSUME PluginsIInv, PrepareSource \/ NpmSearchFails \/ SearchAgain
    PROVE  PluginsIInv'
<1>1. CASE PrepareSource
  <2>1. /\ toAsk # <<>> /\ toAsk \in Seq(Sources) /\ printing = "no" /\ shown = <<>> /\ source' = Head(toAsk)
        /\ plugins' \in Initialize(source') /\ loadedPages' = [page \in 1 .. MaxPage |-> NoPlugins]
        /\ UNCHANGED <<printing, nextPage, firstPage, shown>> /\ (toAsk' = <<>> \/ toAsk' = Tail(toAsk))
    BY <1>1 DEF PrepareSource, PluginsIInv, SearchOK, PrintingOK
  <2>2. source' \in Sources /\ toAsk' \in Seq(Sources)
    BY <2>1, HeadTailProperties, EmptySeq
  <2>3. SearchOK'
    BY <2>1, <2>2 DEF SearchOK, Initialize, LoadedPages, FromNpmRegistry, FromNpmSearch
  <2>4. (PrintingOK /\ Stretch /\ AskedForMore)'
    BY <2>1 DEF PluginsIInv, PrintingOK, Stretch, AskedForMore
  <2> QED
    BY <2>3, <2>4 DEF PluginsIInv
<1>2. CASE NpmSearchFails
  BY <1>2 DEF NpmSearchFails, PluginsIInv, SearchOK, PrintingOK, Stretch, AskedForMore, Results, PageOf, FromNpmRegistry, FromNpmSearch
<1>3. CASE SearchAgain
  <2>1. <<"npmjs", "registry", "npm">> \in Seq(Sources) /\ <<"registry", "npmjs", "registry", "npm">> \in Seq(Sources)
    BY DEF Sources
  <2>2. toAsk' \in Seq(Sources)
    BY <1>3, <2>1 DEF SearchAgain, Searches
  <2>3. SearchOK'
    BY <1>3, <2>2 DEF SearchAgain, PluginsIInv, SearchOK, PageOf, FromNpmRegistry, FromNpmSearch
  <2>4. (PrintingOK /\ Stretch /\ AskedForMore)'
    BY <1>3 DEF SearchAgain, PluginsIInv, PrintingOK, Stretch, AskedForMore
  <2> QED
    BY <2>3, <2>4 DEF PluginsIInv
<1> QED
  BY <1>1, <1>2, <1>3

LEMMA PrintKeeps ==
    ASSUME PluginsIInv, PrintPlugins
    PROVE  PluginsIInv'
<1>1. PICK loaded \in LoadedPages :
        LoadPage(loaded) /\ shown' = (IF loaded = NoPlugins THEN <<>> ELSE loaded) /\ Display(loaded)
  BY DEF PrintPlugins
<1>2. toAsk = <<>> /\ HasPlugins /\ firstPage' = nextPage
  BY DEF PrintPlugins
<1>3. /\ SearchOK' /\ nextPage \in 1 .. MaxPage /\ nextPage' = nextPage + 1 /\ nextPage' \in 1 .. MaxPage + 1
      /\ toAsk' = toAsk /\ source' = source /\ Results' = Results
      /\ source # "npmjs" => plugins' = plugins
      /\ source # "registry" => loaded \in {NoPlugins, Slice(Results, PageStart(nextPage), PageStart(nextPage + 1))}
      /\ source = "registry" => loaded = IF nextPage = 1 THEN plugins ELSE NoPlugins
  BY <1>1, LoadPageLoads DEF PluginsIInv, PrintingOK
<1>4. Results \in Seq(Found)
  BY <1>2, ResultsAreTyped DEF PluginsIInv
<1>5. /\ PageStart(nextPage) \in Nat /\ PageStart(nextPage + 1) \in Nat /\ PageStart(nextPage) <= PageStart(nextPage + 1)
      /\ source = "npmjs" => PageStart(1) = 0
  <2>1. nextPage \in Nat \ {0} /\ source \in Sources
    BY <1>3 DEF PluginsIInv, SearchOK
  <2> QED
    BY <2>1, PagesFollow
<1>6. PageStart(firstPage)' = PageStart(nextPage) /\ PageStart(nextPage)' = PageStart(nextPage + 1)
  BY <1>2, <1>3 DEF PageStart
<1>7. printing' \in {"asks", "no"} /\ (printing' = "asks" => loaded # NoPlugins /\ Len(loaded) >= CountToShow)
  BY <1>1 DEF Display
<1>8. PrintingOK'
  BY <1>2, <1>3, <1>7 DEF PrintingOK
<1>9. Stretch'
  <2> SUFFICES ASSUME shown' # <<>> PROVE Stretch'
    BY DEF Stretch
  <2>1. shown' = loaded /\ loaded # NoPlugins
    BY <1>1
  <2>2. CASE source # "registry"
    BY <1>2, <1>3, <1>4, <1>5, <2>1, <2>2 DEF Stretch, SearchOK, PluginsIInv, Sources
  <2>3. CASE source = "registry"
    <3>1. loaded = plugins /\ Results = plugins
      BY <1>3, <2>1, <2>3 DEF Results
    <3>2. Len(Results) \in Nat /\ Slice(Results, 0, Len(Results)) = Results
      BY <1>4, WholeIsSlice
    <3> QED
      BY <1>3, <1>4, <2>1, <3>1, <3>2 DEF Stretch
  <2> QED
    BY <2>2, <2>3
<1>10. AskedForMore'
  <2> SUFFICES ASSUME printing' = "asks" PROVE AskedForMore'
    BY DEF AskedForMore
  <2>1. shown' = loaded /\ loaded # NoPlugins /\ loaded # <<>>
    <3>1. Len(<<>>) = 0 /\ CountToShow \in Nat /\ CountToShow > 0
      BY PluginsAssumption
    <3>2. loaded # NoPlugins /\ Len(loaded) >= CountToShow
      BY <1>7
    <3>3. loaded # <<>>
      BY <3>1, <3>2
    <3> QED
      BY <1>1, <3>2, <3>3
  <2>2. firstPage' < nextPage' /\ nextPage' # 1
    BY <1>2, <1>3
  <2>3. source = "registry" => shown' = plugins'
    BY <1>3, <2>1
  <2>4. source # "registry" => shown' = Slice(Results, PageStart(nextPage), PageStart(nextPage + 1))
    BY <1>3, <2>1
  <2> QED
    BY <1>3, <1>4, <1>6, <2>1, <2>2, <2>3, <2>4 DEF AskedForMore
<1> QED
  BY <1>3, <1>8, <1>9, <1>10 DEF PluginsIInv

LEMMA PrintAllKeeps ==
    ASSUME PluginsIInv, PrintAllPlugins
    PROVE  PluginsIInv'
<1>1. /\ toAsk = <<>> /\ HasPlugins /\ firstPage' = 1 /\ shown' \in AllPlugins /\ printing = "no"
      /\ UNCHANGED <<toAsk, source, plugins, loadedPages, printing, nextPage>>
  BY DEF PrintAllPlugins
<1>2. Results \in Seq(Found) /\ Results' = Results
  BY <1>1, ResultsAreTyped DEF PluginsIInv, Results
<1>3. \E to \in Nat : shown' = Slice(Results, 0, to)
  <2>1. CASE source = "npmjs"
    <3>1. PICK pages \in 0 .. Len(OnNpm) : shown' = Slice(OnNpm, 0, pages * SiteCount)
      BY <1>1, <2>1 DEF AllPlugins
    <3>2. pages * SiteCount \in Nat
      <4>1. Len(OnNpm) \in Nat /\ SiteCount \in Nat
        BY PluginsAssumption, LenProperties
      <4> QED
        BY <4>1
    <3> QED
      BY <2>1, <3>1, <3>2 DEF Results
  <2>2. CASE source # "npmjs"
    <3>1. Len(Results) \in Nat /\ Slice(Results, 0, Len(Results)) = Results
      BY <1>2, WholeIsSlice
    <3>2. shown' = Results
      BY <1>1, <2>2 DEF AllPlugins, Results
    <3> QED
      BY <3>1, <3>2
  <2> QED
    BY <2>1, <2>2
<1>4. SearchOK'
  BY <1>1 DEF PluginsIInv, SearchOK, PageOf, FromNpmRegistry, FromNpmSearch
<1>5. PrintingOK' /\ AskedForMore'
  BY <1>1, PluginsAssumption DEF PluginsIInv, PrintingOK, AskedForMore
<1>6. Stretch'
  <2>1. PICK to \in Nat : shown' = Slice(Results, 0, to)
    BY <1>3
  <2>2. 0 \in Nat /\ 0 <= to
    OBVIOUS
  <2> QED
    BY <1>2, <2>1, <2>2 DEF Stretch
<1> QED
  BY <1>4, <1>5, <1>6 DEF PluginsIInv

LEMMA LoadMoreKeeps ==
    ASSUME PluginsIInv, AnswerLoadMore
    PROVE  PluginsIInv'
<1>1. PICK more \in BOOLEAN, loaded \in LoadedPages :
          /\ LoadPage(loaded)
          /\ IF more /\ loaded \notin {NoPlugins, <<>>}
             THEN shown' = shown \o loaded /\ Display(loaded)
             ELSE UNCHANGED shown /\ printing' = "no"
  BY DEF AnswerLoadMore
<1>2. /\ printing = "asks" /\ firstPage' = firstPage /\ Results \in Seq(Found) /\ firstPage < nextPage /\ shown # <<>>
      /\ toAsk = <<>>
  BY DEF AnswerLoadMore, PluginsIInv, AskedForMore, PrintingOK
<1>3. /\ SearchOK' /\ nextPage \in 1 .. MaxPage /\ nextPage' = nextPage + 1 /\ nextPage' \in 1 .. MaxPage + 1
      /\ toAsk' = toAsk /\ source' = source /\ Results' = Results
      /\ source # "npmjs" => plugins' = plugins
      /\ source # "registry" => loaded \in {NoPlugins, Slice(Results, PageStart(nextPage), PageStart(nextPage + 1))}
      /\ source = "registry" => loaded = IF nextPage = 1 THEN plugins ELSE NoPlugins
  BY <1>1, LoadPageLoads DEF PluginsIInv, PrintingOK
<1>4. CASE more /\ loaded \notin {NoPlugins, <<>>}
  <2>1. shown' = shown \o loaded /\ Display(loaded)
    BY <1>1, <1>4
  <2>2. source # "registry"
    BY <1>2, <1>3, <1>4 DEF PluginsIInv, AskedForMore
  <2>3. /\ shown = Slice(Results, PageStart(firstPage), PageStart(nextPage))
        /\ loaded = Slice(Results, PageStart(nextPage), PageStart(nextPage + 1))
    BY <1>2, <1>3, <1>4, <2>2 DEF PluginsIInv, AskedForMore
  <2>4. /\ PageStart(firstPage) \in Nat /\ PageStart(nextPage) \in Nat /\ PageStart(nextPage + 1) \in Nat
        /\ PageStart(firstPage) <= PageStart(nextPage) /\ PageStart(nextPage) <= PageStart(nextPage + 1)
        /\ source = "npmjs" => PageStart(1) = 0
    <3>1. firstPage \in Nat \ {0} /\ nextPage \in Nat \ {0} /\ firstPage <= nextPage /\ source \in Sources
      BY <1>2, <1>3 DEF PluginsIInv, PrintingOK, SearchOK
    <3> QED
      BY <3>1, PagesFollow, PagesAreOrdered
  <2>5. shown' = Slice(Results, PageStart(firstPage), PageStart(nextPage + 1))
    BY <1>2, <2>1, <2>3, <2>4, SlicesAdjoin
  <2>6. shown' # <<>>
    <3>1. shown \in Seq(Found) /\ loaded \in Seq(Found)
      BY <1>2, <2>3, <2>4, SliceIsSubSeq
    <3> QED
      BY <1>2, <2>1, <3>1, ConcatEqualIffEmpty
  <2>7. PageStart(firstPage)' = PageStart(firstPage) /\ PageStart(nextPage)' = PageStart(nextPage + 1)
    BY <1>2, <1>3 DEF PageStart
  <2>8. PrintingOK'
    BY <1>2, <1>3, <2>1 DEF PluginsIInv, PrintingOK, Display
  <2>9. Stretch'
    <3>1. PageStart(firstPage) <= PageStart(nextPage + 1)
      BY <2>4
    <3>2. firstPage = 1 /\ source # "npm" => PageStart(firstPage) = 0
      BY <2>2, <2>4 DEF PluginsIInv, SearchOK, Sources
    <3> QED
      BY <1>2, <1>3, <2>4, <2>5, <3>1, <3>2 DEF Stretch
  <2>10. AskedForMore'
    <3>1. firstPage' < nextPage'
      BY <1>2, <1>3 DEF PluginsIInv, PrintingOK
    <3> QED
      BY <1>2, <1>3, <2>2, <2>5, <2>6, <2>7, <3>1 DEF AskedForMore
  <2> QED
    BY <1>3, <2>8, <2>9, <2>10 DEF PluginsIInv
<1>5. CASE ~(more /\ loaded \notin {NoPlugins, <<>>})
  <2>1. shown' = shown /\ printing' = "no"
    BY <1>1, <1>5
  <2>2. PrintingOK' /\ AskedForMore'
    BY <1>2, <1>3, <2>1 DEF PluginsIInv, PrintingOK, AskedForMore
  <2>3. Stretch'
    BY <1>2, <1>3, <2>1 DEF PluginsIInv, Stretch
  <2> QED
    BY <1>3, <2>2, <2>3 DEF PluginsIInv
<1> QED
  BY <1>4, <1>5

LEMMA PluginsNextIInv == PluginsIInv /\ [PluginsNext]_pluginsVars => PluginsIInv'
<1> SUFFICES ASSUME PluginsIInv, [PluginsNext]_pluginsVars PROVE PluginsIInv'
  OBVIOUS
<1>1. CASE UNCHANGED pluginsVars
  BY <1>1 DEF pluginsVars, PluginsIInv, SearchOK, PrintingOK, Stretch, AskedForMore, Results, PageStart, PageOf, FromNpmRegistry, FromNpmSearch
<1> QED
  BY <1>1, SearchKeeps, PrintKeeps, PrintAllKeeps, LoadMoreKeeps DEF PluginsNext

\* The search for plugins keeps its inductive invariant (services/plugins).
THEOREM PluginsInvariant == PluginsSpec => []PluginsIInv
BY PluginsInitIInv, PluginsNextIInv, PTL DEF PluginsSpec

\* Every variable keeps its type.
THEOREM PluginsTypeCorrect == PluginsSpec => []PluginsTypeOK
<1>1. PluginsIInv => PluginsTypeOK
  BY DEF PluginsIInv, SearchOK, PrintingOK, PluginsTypeOK, Sources
<1> QED
  BY <1>1, PluginsInvariant, PTL

\* For any results, page sizes and pages that fail, what one printing shows is a
\* stretch of the results of the search (print-plugins-service.ts:14-66).
THEOREM PluginsShownInOrder == PluginsSpec => []ShownInOrder
<1>1. PluginsIInv => ShownInOrder
  <2> SUFFICES ASSUME PluginsIInv, shown # <<>>
               PROVE  \E i \in 0 .. Len(Results) :
                         shown = Slice(Results, i, i + Len(shown)) /\ (firstPage = 1 /\ source # "npm" => i = 0)
    BY DEF ShownInOrder, Results
  <2>1. PICK from, to \in Nat :
            /\ from <= to /\ shown = Slice(Results, from, to)
            /\ firstPage = 1 /\ source # "npm" => from = 0
    BY DEF PluginsIInv, Stretch
  <2>2. Results \in Seq(Found)
    BY DEF PluginsIInv, Stretch
  <2>3. /\ from < Len(Results)
        /\ Slice(Results, from, to) = Slice(Results, from, from + Len(Slice(Results, from, to)))
    BY <2>1, <2>2, SliceIsSubSeq
  <2>4. from \in 0 .. Len(Results)
    BY <2>2, <2>3, LenProperties
  <2>5. shown = Slice(Results, from, from + Len(shown))
    BY <2>1, <2>3
  <2> QED
    BY <2>1, <2>4, <2>5
<1> QED
  BY <1>1, PluginsInvariant, PTL

-----------------------------------------------------------------------------
(***************************************************************************)
(* The analytics.  What a caller still has to do is a sequence of segments *)
(* that only changes at its head: other segments are put before the rest,  *)
(* or what a try block guards is dropped.  InOrder says of such a sequence *)
(* what holds at every place of it; the lemmas say that each way to go on  *)
(* keeps that.                                                             *)
(***************************************************************************)
Items == [setting : Settings, answer : BOOLEAN, version : BOOLEAN]
Segments ==
    [do : {"report", "checkConsent", "confirm", "tell", "initStatuses", "initDone", "endTry", "body", "exit"}]
    \cup [do : {"getStatus", "load"}, setting : Settings]
    \cup [do : {"setStatus", "save"}, setting : Settings, enabled : BOOLEAN]
    \cup [do : {"confirmErrors"}, enabled : BOOLEAN]
    \cup [do : {"track", "request"}, item : Items]
    \cup [do : {"send", "create"}, key : Keys, item : Items]
    \cup [do : {"start", "use"}, monitor : Nat, item : Items]

Sending == {"request", "send", "create", "start", "use"}
Initializing == {"initStatuses", "getStatus", "load", "initDone"}
OnlyCommand == {"setStatus", "save", "confirm", "tell", "confirmErrors", "checkConsent", "body"}

\* The segments that may ask for the setting, and those that come no more after a
\* segment: a setting is asked for before it is set, and each once.
Asks == {"checkConsent", "confirm", "confirmErrors"}
AsksFor(s) == IF s = Usage THEN {"checkConsent", "confirm"} ELSE Asks
NotAfter(g) == IF g.do \in Asks THEN Asks ELSE IF g.do \in {"setStatus", "save"} THEN AsksFor(g.setting) ELSE {}

\* A segment that will hand over what is not the answer to the question.
Tracks(g) == g.do \in Sending /\ ~ g.item.answer
TurnsOff(g) == g.do = "setStatus" /\ ~ g.enabled

\* The statuses will be there before the segment at place i runs.
Awaits(t, i) ==
    /\ \E j \in 1 .. i - 1 : t[j].do \in {"initStatuses", "initDone"} /\ \A k \in 1 .. j : t[k].do \in Initializing
    /\ \A k \in 1 .. i - 1 : t[k].do # "endTry"

\* What holds at place i of what a caller has to do: wanted are the settings
\* wanted since its call began, count is the number of monitors, and promise,
\* and kept are the values of init and stored.
InOrderAt(t, i, caller, wanted, count, promise, kept) ==
    /\ Tracks(t[i]) => t[i].item.setting \in wanted /\ \A j \in 1 .. i - 1 : t[j].do \in Sending
    /\ t[i].do = "request" => i = 1 /\ \A j \in 2 .. Len(t) : ~ Tracks(t[j])
    /\ t[i].do \in {"start", "load"} => i = 1
    /\ t[i].do \in {"start", "use"} => t[i].monitor \in 1 .. count
    /\ t[i].do = "save" => i = 1 /\ (t[i].enabled => t[i].setting \in wanted)
    /\ \A j \in i + 1 .. Len(t) : t[j].do \notin NotAfter(t[i])
    /\ t[i].do = "initDone" => promise = "pending" /\ \A j \in 1 .. i - 1 : t[j].do \in {"getStatus", "load"}
    /\ caller # "command" => t[i].do \notin OnlyCommand
    /\ caller # "command" /\ t[i].do \in {"getStatus", "load"} => \E j \in i + 1 .. Len(t) : t[j].do = "initDone"
    /\ caller = "command" /\ TurnsOff(t[i]) => promise = "done" \/ Awaits(t, i) \/ (i = 1 /\ kept[t[i].setting] # "enabled")

InOrder(t, caller, wanted, count, promise, kept) ==
    /\ t \in Seq(Segments)
    /\ \A i \in DOMAIN t : InOrderAt(t, i, caller, wanted, count, promise, kept)

\* Tuples put together.
LEMMA TupleOfTwo ==
    ASSUME NEW x, NEW y PROVE <<x>> \o <<y>> = <<x, y>>
<1> DEFINE S == {x, y}
<1>1. <<x>> \in Seq(S) /\ <<y>> \in Seq(S) /\ <<x, y>> \in Seq(S) /\ Len(<<x>>) = 1 /\ Len(<<y>>) = 1 /\ Len(<<x, y>>) = 2
  OBVIOUS
<1>2. /\ <<x>> \o <<y>> \in Seq(S)
      /\ Len(<<x>> \o <<y>>) = 2
      /\ \A i \in 1 .. 2 : (<<x>> \o <<y>>)[i] = IF i <= 1 THEN <<x>>[i] ELSE <<y>>[i - 1]
  BY <1>1, ConcatProperties
<1>3. \A i \in 1 .. 2 : (<<x>> \o <<y>>)[i] = <<x, y>>[i]
  BY <1>2
<1> QED
  BY <1>1, <1>2, <1>3, SeqEqual

LEMMA TupleOfThree ==
    ASSUME NEW x, NEW y, NEW z PROVE <<x, y>> \o <<z>> = <<x, y, z>>
<1> DEFINE S == {x, y, z}
<1>1. <<x, y>> \in Seq(S) /\ <<z>> \in Seq(S) /\ <<x, y, z>> \in Seq(S) /\ Len(<<x, y>>) = 2 /\ Len(<<z>>) = 1 /\ Len(<<x, y, z>>) = 3
  OBVIOUS
<1>2. /\ <<x, y>> \o <<z>> \in Seq(S)
      /\ Len(<<x, y>> \o <<z>>) = 3
      /\ \A i \in 1 .. 3 : (<<x, y>> \o <<z>>)[i] = IF i <= 2 THEN <<x, y>>[i] ELSE <<z>>[i - 2]
  BY <1>1, ConcatProperties
<1>3. \A i \in 1 .. 3 : (<<x, y>> \o <<z>>)[i] = <<x, y, z>>[i]
  BY <1>2
<1> QED
  BY <1>1, <1>2, <1>3, SeqEqual

LEMMA TupleOfOneAndTwo ==
    ASSUME NEW x, NEW y, NEW z PROVE <<x>> \o <<y, z>> = <<x, y, z>>
<1> DEFINE S == {x, y, z}
<1>1. <<x>> \in Seq(S) /\ <<y, z>> \in Seq(S) /\ <<x, y, z>> \in Seq(S) /\ Len(<<x>>) = 1 /\ Len(<<y, z>>) = 2 /\ Len(<<x, y, z>>) = 3
  OBVIOUS
<1>2. /\ <<x>> \o <<y, z>> \in Seq(S)
      /\ Len(<<x>> \o <<y, z>>) = 3
      /\ \A i \in 1 .. 3 : (<<x>> \o <<y, z>>)[i] = IF i <= 1 THEN <<x>>[i] ELSE <<y, z>>[i - 1]
  BY <1>1, ConcatProperties
<1>3. \A i \in 1 .. 3 : (<<x>> \o <<y, z>>)[i] = <<x, y, z>>[i]
  BY <1>2
<1> QED
  BY <1>1, <1>2, <1>3, SeqEqual

LEMMA TupleOfFour ==
    ASSUME NEW x, NEW y, NEW z, NEW w PROVE <<x, y, z>> \o <<w>> = <<x, y, z, w>>
<1> DEFINE S == {x, y, z, w}
<1>1. <<x, y, z>> \in Seq(S) /\ <<w>> \in Seq(S) /\ <<x, y, z, w>> \in Seq(S) /\ Len(<<x, y, z>>) = 3 /\ Len(<<w>>) = 1 /\ Len(<<x, y, z, w>>) = 4
  OBVIOUS
<1>2. /\ <<x, y, z>> \o <<w>> \in Seq(S)
      /\ Len(<<x, y, z>> \o <<w>>) = 4
      /\ \A i \in 1 .. 4 : (<<x, y, z>> \o <<w>>)[i] = IF i <= 3 THEN <<x, y, z>>[i] ELSE <<w>>[i - 3]
  BY <1>1, ConcatProperties
<1>3. \A i \in 1 .. 4 : (<<x, y, z>> \o <<w>>)[i] = <<x, y, z, w>>[i]
  BY <1>2
<1> QED
  BY <1>1, <1>2, <1>3, SeqEqual

\* The fields of a segment follow from what it does.
LEMMA SegmentFields ==
    ASSUME NEW g \in Segments
    PROVE  /\ g.do \in {"getStatus", "load", "save", "setStatus"} => g.setting \in Settings
           /\ g.do \in {"setStatus", "save", "confirmErrors"} => g.enabled \in BOOLEAN
           /\ g.do \in Sending \cup {"track"} => g.item \in Items
           /\ g.do \in {"send", "create"} => g.key \in Keys
           /\ g.do \in {"start", "use"} => g.monitor \in Nat
BY DEF Segments, Sending

\* Where the segments of a call that goes on come from.
LEMMA GoesOn ==
    ASSUME NEW t \in Seq(Segments), t # <<>>, NEW a \in Seq(Segments)
    PROVE  /\ a \o Tail(t) \in Seq(Segments)
           /\ Len(a \o Tail(t)) = Len(a) + Len(t) - 1
           /\ \A i \in 1 .. Len(a) : (a \o Tail(t))[i] = a[i]
           /\ \A i \in 2 .. Len(t) : (a \o Tail(t))[Len(a) + i - 1] = t[i]
           /\ \A i \in DOMAIN (a \o Tail(t)) :
                 i \in 1 .. Len(a) \/ (i - Len(a) + 1 \in 2 .. Len(t) /\ (a \o Tail(t))[i] = t[i - Len(a) + 1])
<1>1. Tail(t) \in Seq(Segments) /\ Len(Tail(t)) = Len(t) - 1 /\ \A i \in 1 .. Len(t) - 1 : Tail(t)[i] = t[i + 1]
  BY HeadTailProperties
<1>2. /\ a \o Tail(t) \in Seq(Segments)
      /\ Len(a \o Tail(t)) = Len(a) + Len(Tail(t))
      /\ \A i \in 1 .. Len(a) + Len(Tail(t)) :
            (a \o Tail(t))[i] = IF i <= Len(a) THEN a[i] ELSE Tail(t)[i - Len(a)]
  BY <1>1, ConcatProperties
<1>3. Len(a) \in Nat /\ Len(t) \in Nat /\ Len(t) >= 1
  BY EmptySeq
<1> DEFINE n == a \o Tail(t)
<1>4. DOMAIN n = 1 .. Len(a) + Len(t) - 1
  BY <1>1, <1>2
<1>5. \A i \in 2 .. Len(t) : n[Len(a) + i - 1] = t[i]
  <2> SUFFICES ASSUME NEW i \in 2 .. Len(t) PROVE n[Len(a) + i - 1] = t[i]
    OBVIOUS
  <2>1. Len(a) + i - 1 \in 1 .. Len(a) + Len(Tail(t)) /\ Len(a) + i - 1 > Len(a) /\ i - 1 \in 1 .. Len(t) - 1
    BY <1>1, <1>3
  <2>2. n[Len(a) + i - 1] = Tail(t)[(Len(a) + i - 1) - Len(a)]
    BY <2>1, <1>2, <1>3
  <2> QED
    BY <2>1, <2>2, <1>1, <1>3
<1>6. \A i \in DOMAIN n : i \in 1 .. Len(a) \/ (i - Len(a) + 1 \in 2 .. Len(t) /\ n[i] = t[i - Len(a) + 1])
  <2> SUFFICES ASSUME NEW i \in 1 .. Len(a) + Len(t) - 1, i > Len(a)
               PROVE  i - Len(a) + 1 \in 2 .. Len(t) /\ n[i] = t[i - Len(a) + 1]
    BY <1>3, <1>4
  <2>1. i - Len(a) + 1 \in 2 .. Len(t) /\ Len(a) + (i - Len(a) + 1) - 1 = i
    BY <1>3
  <2> QED
    BY <2>1, <1>5
<1>7. \A i \in 1 .. Len(a) : n[i] = a[i]
  BY <1>2, <1>3, <1>1
<1> QED
  BY <1>1, <1>2, <1>3, <1>5, <1>6, <1>7

\* What is left after a try block.
LEMMA Remains ==
    ASSUME NEW t \in Seq(Segments), NEW p \in DOMAIN t
    PROVE  LET n == SubSeq(t, p + 1, Len(t))
           IN  n \in Seq(Segments) /\ Len(n) = Len(t) - p /\ \A i \in DOMAIN n : p + i \in DOMAIN t /\ n[i] = t[p + i]
<1>1. p \in 1 .. Len(t) /\ Len(t) \in Nat
  OBVIOUS
<1>2. CASE p = Len(t)
  <2>1. SubSeq(t, p + 1, Len(t)) = <<>>
    BY <1>1, <1>2, SubSeqEmpty
  <2> QED
    BY <2>1, <1>2
<1>3. CASE p < Len(t)
  <2>1. p + 1 \in 1 .. Len(t) /\ Len(t) \in p + 1 .. Len(t)
    BY <1>1, <1>3
  <2>2. /\ SubSeq(t, p + 1, Len(t)) \in Seq(Segments)
        /\ Len(SubSeq(t, p + 1, Len(t))) = Len(t) - (p + 1) + 1
        /\ \A i \in 1 .. Len(t) - (p + 1) + 1 : SubSeq(t, p + 1, Len(t))[i] = t[p + 1 + i - 1]
    BY <1>1, <1>3, SubSeqProperties
  <2> QED
    BY <2>2, <1>1, <1>3
<1> QED
  BY <1>1, <1>2, <1>3

\* What is left after a try block that caught an error stays in order.
LEMMA RemainsInOrder ==
    ASSUME NEW t, NEW caller, NEW wanted, NEW count,
           NEW promise, NEW promise2, NEW kept,
           InOrder(t, caller, wanted, count, promise, kept),
           NEW p \in DOMAIN t, t[p].do = "endTry",
           promise = "done" => promise2 = "done"
    PROVE  /\ InOrder(SubSeq(t, p + 1, Len(t)), caller, wanted, count, promise2, kept)
           /\ \A i \in DOMAIN SubSeq(t, p + 1, Len(t)) : SubSeq(t, p + 1, Len(t))[i].do \notin {"start", "load", "initDone"}
<1> DEFINE n == SubSeq(t, p + 1, Len(t))
<1>1. t \in Seq(Segments) /\ p \in 1 .. Len(t) /\ Len(t) \in Nat
  BY DEF InOrder
<1>2. n \in Seq(Segments) /\ Len(n) = Len(t) - p /\ \A i \in DOMAIN n : p + i \in DOMAIN t /\ n[i] = t[p + i]
  BY <1>1, Remains
<1>3. DOMAIN n = 1 .. Len(n)
  BY <1>2
<1> HIDE DEF n
<1>4. ASSUME NEW i \in DOMAIN n
      PROVE  InOrderAt(n, i, caller, wanted, count, promise2, kept) /\ n[i].do \notin {"start", "load", "initDone"}
  <2>1. i \in 1 .. Len(n) /\ p + i \in 2 .. Len(t) /\ p \in 1 .. (p + i) - 1 /\ n[i] = t[p + i] /\ t[p + i] \in Segments
    BY <1>1, <1>2, <1>3, <1>4
  <2>2. InOrderAt(t, p + i, caller, wanted, count, promise, kept)
    BY <1>4, <1>2 DEF InOrder
  <2>3. ~ Awaits(t, p + i)
    BY <2>1 DEF Awaits
  <2>4. ~ Tracks(t[p + i]) /\ t[p + i].do \notin {"start", "load", "request", "initDone"}
    <3> DEFINE q == p + i
    <3>1. q \in 2 .. Len(t) /\ p \in 1 .. q - 1 /\ InOrderAt(t, q, caller, wanted, count, promise, kept)
      BY <2>1, <2>2
    <3> HIDE DEF q
    <3>2. ~ Tracks(t[q])
      BY <3>1 DEF InOrderAt, Sending
    <3>3. t[q].do # "initDone"
      BY <3>1 DEF InOrderAt
    <3>4. t[q].do \notin {"start", "load", "request"}
      BY <3>1 DEF InOrderAt
    <3> QED
      BY <3>2, <3>3, <3>4 DEF q
  <2>5. caller = "command" \/ t[p + i].do \notin {"getStatus", "load"}
    <3> SUFFICES ASSUME caller # "command", t[p + i].do \in {"getStatus", "load"} PROVE FALSE
      OBVIOUS
    <3>1. PICK j \in (p + i) + 1 .. Len(t) : t[j].do = "initDone"
      BY <2>2 DEF InOrderAt
    <3>2. j \in 1 .. Len(t) /\ p \in 1 .. j - 1
      <4>1. i \in Nat /\ p \in Nat /\ i >= 1 /\ p >= 1 /\ j >= p + i + 1 /\ j \in Int /\ j <= Len(t)
        <5>1. i \in Nat /\ i >= 1 /\ p \in Nat /\ p >= 1 /\ Len(t) \in Nat
          BY <1>1, <1>2, <2>1
        <5> QED
          BY <5>1, <3>1
      <4> QED
        BY <4>1, <1>1
    <3>3. InOrderAt(t, j, caller, wanted, count, promise, kept)
      BY <1>1, <3>2 DEF InOrder
    <3>4. t[p].do \in {"getStatus", "load"}
      BY <3>1, <3>2, <3>3 DEF InOrderAt
    <3> QED
      BY <3>4
  <2>6. caller = "command" /\ TurnsOff(t[p + i]) => promise2 = "done"
    BY <2>1, <2>2, <2>3 DEF InOrderAt
  <2>7. /\ t[p + i].do \in {"start", "use"} => t[p + i].monitor \in 1 .. count
        /\ t[p + i].do # "save"
        /\ caller # "command" => t[p + i].do \notin OnlyCommand
    BY <2>1, <2>2 DEF InOrderAt
  <2>8. ASSUME NEW j \in i + 1 .. Len(n) PROVE n[j].do \notin NotAfter(n[i])
    <3>1. i \in Nat /\ i >= 1 /\ p \in Nat /\ p >= 1 /\ Len(n) \in Nat /\ Len(n) = Len(t) - p /\ Len(t) \in Nat
      BY <1>1, <1>2, <2>1
    <3>2. j \in 1 .. Len(n) /\ p + j \in (p + i) + 1 .. Len(t)
      BY <2>8, <3>1
    <3>3. n[j] = t[p + j]
      BY <1>2, <1>3, <3>2
    <3> QED
      BY <2>1, <2>2, <3>2, <3>3 DEF InOrderAt
  <2> QED
    BY <2>1, <2>4, <2>5, <2>6, <2>7, <2>8 DEF InOrderAt
<1> QED
  BY <1>2, <1>4 DEF InOrder, n

\* What the rest of a call is like, by the segment it begins with.
LEMMA RestInOrder ==
    ASSUME NEW t, NEW caller, NEW wanted, NEW count,
           NEW promise, NEW kept,
           InOrder(t, caller, wanted, count, promise, kept),
           NEW i \in 2 .. Len(t)
    PROVE  /\ t[i] \in Segments /\ i \in DOMAIN t
           /\ t[i].do \notin {"start", "load", "request", "save"} /\ t[i].do \notin NotAfter(t[1])
           /\ t[1].do \notin Sending \/ t[1].do = "request" => ~ Tracks(t[i])
           /\ t[1].do \notin {"getStatus", "load"} => t[i].do # "initDone" /\ (caller = "command" \/ t[i].do # "getStatus")
           /\ caller = "command" /\ TurnsOff(t[i]) => promise = "done" \/ (t[1].do \in Initializing /\ Awaits(t, i))
<1>1. t \in Seq(Segments) /\ Len(t) \in Nat /\ i \in DOMAIN t /\ 1 \in 1 .. i - 1 /\ 1 \in DOMAIN t
  BY DEF InOrder
<1>2. InOrderAt(t, i, caller, wanted, count, promise, kept) /\ InOrderAt(t, 1, caller, wanted, count, promise, kept)
  BY <1>1 DEF InOrder
<1>3. t[i] \in Segments
  BY <1>1
<1>4. t[i].do \notin {"start", "load", "request", "save"} /\ t[i].do \notin NotAfter(t[1])
  BY <1>1, <1>2 DEF InOrderAt
<1>5. t[1].do \notin Sending \/ t[1].do = "request" => ~ Tracks(t[i])
  BY <1>1, <1>2 DEF InOrderAt
<1>6. ASSUME NEW j \in DOMAIN t, j > 1, t[1].do \notin {"getStatus", "load"} PROVE t[j].do # "initDone"
  <2>1. InOrderAt(t, j, caller, wanted, count, promise, kept) /\ 1 \in 1 .. j - 1
    BY <1>1, <1>6 DEF InOrder
  <2> QED
    BY <2>1, <1>6 DEF InOrderAt
<1>7. t[1].do \notin {"getStatus", "load"} => t[i].do # "initDone" /\ (caller = "command" \/ t[i].do # "getStatus")
  <2> SUFFICES ASSUME t[1].do \notin {"getStatus", "load"} PROVE t[i].do # "initDone" /\ (caller = "command" \/ t[i].do # "getStatus")
    OBVIOUS
  <2>1. t[i].do # "initDone"
    BY <1>1, <1>6
  <2>2. ASSUME caller # "command", t[i].do = "getStatus" PROVE FALSE
    <3>1. PICK j \in i + 1 .. Len(t) : t[j].do = "initDone"
      BY <1>2, <2>2 DEF InOrderAt
    <3>2. j \in DOMAIN t /\ j > 1
      BY <1>1, <3>1
    <3> QED
      BY <3>1, <3>2, <1>6
  <2> QED
    BY <2>1, <2>2
<1>8. caller = "command" /\ TurnsOff(t[i]) => promise = "done" \/ (t[1].do \in Initializing /\ Awaits(t, i))
  <2> SUFFICES ASSUME Awaits(t, i) PROVE t[1].do \in Initializing
    BY <1>1, <1>2 DEF InOrderAt
  <2>1. PICK j \in 1 .. i - 1 : \A k \in 1 .. j : t[k].do \in Initializing
    BY DEF Awaits
  <2> QED
    BY <2>1, <1>1
<1> QED
  BY <1>1, <1>3, <1>4, <1>5, <1>7, <1>8

\* A call that goes on with other segments stays in order when these are: those
\* of initAnalyticsStatuses end with the resolution of its promise, and whoever
\* is about to send puts nothing else before it.
LEMMA GoesOnInOrder ==
    ASSUME NEW t, NEW caller, NEW wanted, NEW wanted2, NEW count \in Nat, NEW count2 \in Nat,
           NEW promise, NEW promise2, NEW kept, NEW kept2,
           InOrder(t, caller, wanted, count, promise, kept), t # <<>>,
           t[1].do \notin {"getStatus", "load"},
           NEW a, InOrder(a, caller, wanted2, count2, promise2, kept2),
           wanted \subseteq wanted2 \/ t[1].do \notin Sending,
           t[1].do \notin Sending \/ ((t[1].do = "request" \/ \A i \in DOMAIN a : a[i].do \in Sending) /\ \A i \in DOMAIN a : a[i].do # "request"),
           t[1].do \in Initializing => promise2 = "done" \/ (Len(a) > 0 /\ a[Len(a)].do = "initDone" /\ \A i \in DOMAIN a : a[i].do \in Initializing),
           \A i \in DOMAIN a : NotAfter(a[i]) \subseteq NotAfter(t[1]),
           count <= count2,
           promise = "done" => promise2 = "done"
    PROVE  InOrder(a \o Tail(t), caller, wanted2, count2, promise2, kept2)
<1> DEFINE n == a \o Tail(t)
           e == Len(a)
<1>1. t \in Seq(Segments) /\ a \in Seq(Segments) /\ Len(t) \in Nat /\ Len(t) >= 1 /\ e \in Nat
  BY EmptySeq DEF InOrder
<1>2. /\ n \in Seq(Segments)
      /\ Len(n) = e + Len(t) - 1
      /\ \A i \in 1 .. e : n[i] = a[i]
      /\ \A i \in 2 .. Len(t) : n[e + i - 1] = t[i]
      /\ \A i \in DOMAIN n : i \in 1 .. e \/ (i - e + 1 \in 2 .. Len(t) /\ n[i] = t[i - e + 1])
  BY <1>1, GoesOn
<1>3. DOMAIN a = 1 .. e /\ DOMAIN n = 1 .. e + Len(t) - 1 /\ DOMAIN t = 1 .. Len(t)
  BY <1>1, <1>2
<1> HIDE DEF n, e
<1>4. ASSUME NEW i \in 1 .. e PROVE InOrderAt(n, i, caller, wanted2, count2, promise2, kept2)
  <2>1. n[i] = a[i] /\ \A j \in 1 .. i : j \in 1 .. e /\ n[j] = a[j]
    BY <1>1, <1>2
  <2>2. InOrderAt(a, i, caller, wanted2, count2, promise2, kept2)
    BY <1>3 DEF InOrder
  <2>3. a[i].do = "request" => \A j \in 2 .. Len(n) : ~ Tracks(n[j])
    <3> SUFFICES ASSUME a[i].do = "request", NEW j \in 2 .. Len(n) PROVE ~ Tracks(n[j])
      OBVIOUS
    <3>1. CASE j \in 1 .. e
      BY <3>1, <2>2, <1>1, <1>2, i = 1 DEF InOrderAt, e
    <3>2. CASE j \notin 1 .. e
      <4>1. j - e + 1 \in 2 .. Len(t) /\ n[j] = t[j - e + 1]
        BY <1>1, <1>2, <1>3, <3>2
      <4>2. t[1].do \notin Sending
        BY <1>3
      <4> QED
        BY <4>1, <4>2, RestInOrder
    <3> QED
      BY <3>1, <3>2
  <2>4. caller # "command" /\ a[i].do \in {"getStatus", "load"} => \E j \in i + 1 .. Len(n) : n[j].do = "initDone"
    <3> SUFFICES ASSUME caller # "command", a[i].do \in {"getStatus", "load"} PROVE \E j \in i + 1 .. Len(n) : n[j].do = "initDone"
      OBVIOUS
    <3>1. PICK j \in i + 1 .. Len(a) : a[j].do = "initDone"
      BY <2>2 DEF InOrderAt
    <3>2. j \in 1 .. e /\ j \in i + 1 .. Len(n)
      BY <1>1, <1>2, <3>1 DEF e
    <3> QED
      BY <3>1, <3>2, <1>2
  <2>5. Awaits(a, i) => Awaits(n, i)
    <3> SUFFICES ASSUME Awaits(a, i) PROVE Awaits(n, i)
      OBVIOUS
    <3>1. PICK j \in 1 .. i - 1 : a[j].do \in {"initStatuses", "initDone"} /\ \A k \in 1 .. j : a[k].do \in Initializing
      BY DEF Awaits
    <3>2. n[j].do \in {"initStatuses", "initDone"} /\ \A k \in 1 .. j : n[k].do \in Initializing
      BY <2>1, <3>1
    <3>3. \A k \in 1 .. i - 1 : n[k].do # "endTry"
      BY <2>1 DEF Awaits
    <3> QED
      BY <3>1, <3>2, <3>3 DEF Awaits
  <2>6. Tracks(a[i]) => a[i].item.setting \in wanted2 /\ \A j \in 1 .. i - 1 : n[j].do \in Sending
    BY <2>1, <2>2, <1>1 DEF InOrderAt
  <2>7. a[i].do = "initDone" => promise2 = "pending" /\ \A j \in 1 .. i - 1 : n[j].do \in {"getStatus", "load"}
    BY <2>1, <2>2, <1>1 DEF InOrderAt
  <2>8. /\ a[i].do = "request" => i = 1
        /\ a[i].do \in {"start", "load"} => i = 1
        /\ a[i].do \in {"start", "use"} => a[i].monitor \in 1 .. count2
        /\ a[i].do = "save" => i = 1 /\ (a[i].enabled => a[i].setting \in wanted2)
        /\ caller # "command" => a[i].do \notin OnlyCommand
    BY <2>2 DEF InOrderAt
  <2>10. ASSUME NEW j \in i + 1 .. Len(n) PROVE n[j].do \notin NotAfter(a[i])
    <3>1. CASE j \in 1 .. e
      <4>1. j \in i + 1 .. Len(a) /\ n[j] = a[j]
        BY <1>1, <1>2, <3>1 DEF e
      <4> QED
        BY <4>1, <2>2 DEF InOrderAt
    <3>2. CASE j \notin 1 .. e
      <4>1. j - e + 1 \in 2 .. Len(t) /\ n[j] = t[j - e + 1]
        BY <1>1, <1>2, <1>3, <2>10, <3>2
      <4>2. t[j - e + 1].do \notin NotAfter(t[1])
        BY <4>1, RestInOrder
      <4>3. NotAfter(a[i]) \subseteq NotAfter(t[1])
        BY <1>3
      <4> QED
        BY <4>1, <4>2, <4>3
    <3> QED
      BY <3>1, <3>2
  <2>9. caller = "command" /\ TurnsOff(a[i]) => promise2 = "done" \/ Awaits(n, i) \/ (i = 1 /\ kept2[a[i].setting] # "enabled")
    BY <2>2, <2>5 DEF InOrderAt
  <2> QED
    BY <2>1, <2>3, <2>4, <2>6, <2>7, <2>8, <2>9, <2>10 DEF InOrderAt
<1>5. ASSUME NEW i \in 2 .. Len(t) PROVE InOrderAt(n, e + i - 1, caller, wanted2, count2, promise2, kept2)
  <2> DEFINE k == e + i - 1
  <2>1. /\ k \in e + 1 .. Len(n) /\ n[k] = t[i]
        /\ \A j \in 1 .. k - 1 : j \in 1 .. e \/ (j - e + 1 \in 2 .. i - 1 /\ n[j] = t[j - e + 1])
    <3>1. k \in e + 1 .. Len(n) /\ n[k] = t[i]
      <4>1. n[k] = t[i]
        BY <1>2
      <4>2. k \in e + 1 .. Len(n)
        BY <1>1, <1>2
      <4> QED
        BY <4>1, <4>2
    <3>2. ASSUME NEW j \in 1 .. k - 1, j \notin 1 .. e PROVE j - e + 1 \in 2 .. i - 1 /\ n[j] = t[j - e + 1]
      <4>1. j \in DOMAIN n /\ j - e + 1 \in 2 .. i - 1
        BY <1>1, <1>2, <1>3, <3>2
      <4> QED
        BY <4>1, <1>2, <3>2
    <3> QED
      BY <3>1, <3>2
  <2>2. InOrderAt(t, i, caller, wanted, count, promise, kept) /\ i \in DOMAIN t
    BY <1>3 DEF InOrder
  <2>3. /\ t[i] \in Segments
        /\ t[i].do \notin {"start", "load", "request", "save"}
        /\ t[1].do \notin Sending \/ t[1].do = "request" => ~ Tracks(t[i])
        /\ t[1].do \notin {"getStatus", "load"} => t[i].do # "initDone" /\ (caller = "command" \/ t[i].do # "getStatus")
        /\ caller = "command" /\ TurnsOff(t[i]) => promise = "done" \/ (t[1].do \in Initializing /\ Awaits(t, i))
    BY RestInOrder
  <2> HIDE DEF k
  <2>4. Tracks(t[i]) => t[i].item.setting \in wanted2 /\ \A j \in 1 .. k - 1 : n[j].do \in Sending
    <3> SUFFICES ASSUME Tracks(t[i]) PROVE t[i].item.setting \in wanted2 /\ \A j \in 1 .. k - 1 : n[j].do \in Sending
      OBVIOUS
    <3>1. t[1].do \in Sending /\ wanted \subseteq wanted2 /\ \A j \in DOMAIN a : a[j].do \in Sending
      BY <2>3
    <3>2. t[i].item.setting \in wanted2 /\ \A j \in 1 .. i - 1 : t[j].do \in Sending
      BY <2>2, <3>1 DEF InOrderAt
    <3>3. ASSUME NEW j \in 1 .. k - 1 PROVE n[j].do \in Sending
      <4>1. CASE j \in 1 .. e
        BY <4>1, <3>1, <1>2, <1>3
      <4>2. CASE j - e + 1 \in 2 .. i - 1 /\ n[j] = t[j - e + 1]
        BY <4>2, <3>2
      <4> QED
        BY <4>1, <4>2, <2>1
    <3> QED
      BY <3>2, <3>3
  <2>5. caller = "command" /\ TurnsOff(t[i]) => promise2 = "done" \/ Awaits(n, k)
    <3> SUFFICES ASSUME t[1].do \in Initializing, Awaits(t, i), promise2 # "done" PROVE Awaits(n, k)
      BY <2>3
    <3>1. e > 0 /\ a[e].do = "initDone" /\ \A j \in 1 .. e : a[j].do \in Initializing
      BY <1>3 DEF e
    <3>2. \A j \in 1 .. e : n[j].do \in Initializing
      BY <3>1, <1>2
    <3>3. e \in 1 .. k - 1 /\ n[e].do = "initDone"
      BY <1>1, <1>2, <2>1, <3>1
    <3>4. ASSUME NEW j \in 1 .. k - 1 PROVE n[j].do # "endTry"
      <4>1. CASE j \in 1 .. e
        BY <4>1, <3>2 DEF Initializing
      <4>2. CASE j - e + 1 \in 2 .. i - 1 /\ n[j] = t[j - e + 1]
        BY <4>2 DEF Awaits
      <4> QED
        BY <4>1, <4>2, <2>1
    <3> QED
      BY <3>2, <3>3, <3>4 DEF Awaits
  <2>6. /\ t[i].do \in {"start", "use"} => t[i].monitor \in 1 .. count2
        /\ caller # "command" => t[i].do \notin OnlyCommand
    BY <2>2, <2>3, SegmentFields DEF InOrderAt
  <2>7. ASSUME NEW j \in k + 1 .. Len(n) PROVE n[j].do \notin NotAfter(t[i])
    <3>1. j - e + 1 \in i + 1 .. Len(t) /\ n[e + (j - e + 1) - 1] = t[j - e + 1] /\ e + (j - e + 1) - 1 = j
      BY <1>1, <1>2, <2>1, <2>7 DEF k
    <3> QED
      BY <3>1, <2>2 DEF InOrderAt
  <2> QED
    BY <2>1, <2>3, <2>4, <2>5, <2>6, <2>7 DEF InOrderAt, k
<1>6. ASSUME NEW i \in DOMAIN n PROVE InOrderAt(n, i, caller, wanted2, count2, promise2, kept2)
  <2>1. CASE i \in 1 .. e
    BY <1>4, <2>1
  <2>2. CASE i \notin 1 .. e
    <3>1. i - e + 1 \in 2 .. Len(t)
      BY <1>2, <2>2
    <3>2. e + (i - e + 1) - 1 = i
      BY <1>1, <1>3
    <3> QED
      BY <3>1, <3>2, <1>5
  <2> QED
    BY <2>1, <2>2
<1> QED
  BY <1>2, <1>6 DEF InOrder, n

\* A call that reads a status goes on, or has the file read first.
LEMMA ReadsInOrder ==
    ASSUME NEW t, NEW caller, NEW wanted, NEW count \in Nat,
           NEW promise, NEW kept,
           InOrder(t, caller, wanted, count, promise, kept), t # <<>>,
           t[1].do \in {"getStatus", "load"},
           NEW a \in Seq(Segments), Len(a) \in {0, 1}, \A i \in DOMAIN a : a[i].do = "load"
    PROVE  InOrder(a \o Tail(t), caller, wanted, count, promise, kept)
<1> DEFINE n == a \o Tail(t)
           e == Len(a)
<1>1. t \in Seq(Segments) /\ Len(t) \in Nat /\ Len(t) >= 1 /\ e \in {0, 1}
  <2>1. t \in Seq(Segments) /\ Len(t) \in Nat /\ Len(t) >= 1 /\ e \in Nat
    BY EmptySeq DEF InOrder
  <2> QED
    BY <2>1 DEF e
<1>2. /\ n \in Seq(Segments)
      /\ Len(n) = e + Len(t) - 1
      /\ \A i \in 1 .. e : n[i] = a[i]
      /\ \A i \in 2 .. Len(t) : n[e + i - 1] = t[i]
      /\ \A i \in DOMAIN n : i \in 1 .. e \/ (i - e + 1 \in 2 .. Len(t) /\ n[i] = t[i - e + 1])
  BY <1>1, GoesOn
<1>3. DOMAIN a = 1 .. e /\ DOMAIN n = 1 .. e + Len(t) - 1 /\ DOMAIN t = 1 .. Len(t) /\ 1 \in DOMAIN t
  BY <1>1, <1>2
<1> HIDE DEF n, e
<1>4. ASSUME caller # "command", NEW i \in 1 .. Len(t), t[i].do \in {"getStatus", "load"} PROVE \E j \in e + i .. Len(n) : n[j].do = "initDone"
  <2>1. PICK j \in i + 1 .. Len(t) : t[j].do = "initDone"
    BY <1>3, <1>4 DEF InOrder, InOrderAt
  <2>2. j \in 2 .. Len(t) /\ e + j - 1 \in e + i .. Len(n)
    BY <1>1, <1>2, <2>1
  <2> QED
    BY <2>1, <2>2, <1>2
<1>5. ASSUME NEW i \in 1 .. e PROVE InOrderAt(n, i, caller, wanted, count, promise, kept)
  <2>1. i = 1 /\ e = 1 /\ n[1].do = "load"
    BY <1>1, <1>2, <1>3
  <2>2. caller # "command" => \E j \in 2 .. Len(n) : n[j].do = "initDone"
    BY <1>1, <1>3, <1>4, <2>1
  <2> QED
    BY <2>1, <2>2 DEF InOrderAt, Tracks, TurnsOff, Sending, OnlyCommand, NotAfter, Asks
<1>6. ASSUME NEW i \in 2 .. Len(t) PROVE InOrderAt(n, e + i - 1, caller, wanted, count, promise, kept)
  <2> DEFINE k == e + i - 1
  <2>1. /\ k \in e + 1 .. Len(n) /\ n[k] = t[i]
        /\ \A j \in 1 .. k - 1 : n[j].do = "load" \/ (j - e + 1 \in 2 .. i - 1 /\ n[j] = t[j - e + 1])
    <3>1. k \in e + 1 .. Len(n) /\ n[k] = t[i]
      <4>1. n[k] = t[i]
        BY <1>2
      <4>2. k \in e + 1 .. Len(n)
        BY <1>1, <1>2
      <4> QED
        BY <4>1, <4>2
    <3>2. ASSUME NEW j \in 1 .. k - 1, j \notin 1 .. e PROVE j - e + 1 \in 2 .. i - 1 /\ n[j] = t[j - e + 1]
      <4>1. j \in DOMAIN n /\ j - e + 1 \in 2 .. i - 1
        BY <1>1, <1>2, <1>3, <3>2
      <4> QED
        BY <4>1, <1>2, <3>2
    <3> QED
      BY <3>1, <3>2, <1>2, <1>3
  <2>2. InOrderAt(t, i, caller, wanted, count, promise, kept) /\ i \in DOMAIN t /\ 1 \in 1 .. i - 1
    BY <1>3 DEF InOrder
  <2>3. t[i] \in Segments /\ t[i].do \notin {"start", "load", "request", "save"} /\ ~ Tracks(t[i])
    BY RestInOrder DEF Sending
  <2> HIDE DEF k
  <2>4. t[i].do = "initDone" => promise = "pending" /\ \A j \in 1 .. k - 1 : n[j].do \in {"getStatus", "load"}
    <3> SUFFICES ASSUME t[i].do = "initDone", NEW j \in 1 .. k - 1 PROVE n[j].do \in {"getStatus", "load"}
      BY <2>2 DEF InOrderAt
    <3>1. CASE j - e + 1 \in 2 .. i - 1 /\ n[j] = t[j - e + 1]
      BY <3>1, <2>2 DEF InOrderAt
    <3> QED
      BY <2>1, <3>1
  <2>5. caller # "command" /\ t[i].do \in {"getStatus", "load"} => \E j \in k + 1 .. Len(n) : n[j].do = "initDone"
    <3> SUFFICES ASSUME caller # "command", t[i].do \in {"getStatus", "load"} PROVE \E j \in k + 1 .. Len(n) : n[j].do = "initDone"
      OBVIOUS
    <3>1. k + 1 = e + i /\ i \in 1 .. Len(t)
      BY <1>1 DEF k
    <3> QED
      BY <3>1, <1>4
  <2>6. caller = "command" /\ TurnsOff(t[i]) => promise = "done" \/ Awaits(n, k)
    <3> SUFFICES ASSUME Awaits(t, i) PROVE Awaits(n, k)
      BY <2>2 DEF InOrderAt
    <3>1. PICK j \in 1 .. i - 1 : t[j].do \in {"initStatuses", "initDone"} /\ \A l \in 1 .. j : t[l].do \in Initializing
      BY DEF Awaits
    <3>2. j \in 2 .. i - 1 /\ e + j - 1 \in 1 .. k - 1 /\ n[e + j - 1] = t[j]
      <4>1. j # 1
        BY <3>1
      <4> QED
        BY <4>1, <1>1, <1>2, <3>1 DEF k
    <3>3. ASSUME NEW l \in 1 .. e + j - 1 PROVE n[l].do \in Initializing
      <4>1. l \in 1 .. k - 1
        BY <1>1, <3>2 DEF k
      <4>2. CASE n[l].do = "load"
        BY <4>2 DEF Initializing
      <4>3. CASE l - e + 1 \in 2 .. i - 1 /\ n[l] = t[l - e + 1]
        <5>1. l - e + 1 \in 1 .. j
          BY <1>1, <3>1, <4>3
        <5> QED
          BY <5>1, <4>3, <3>1
      <4> QED
        BY <4>1, <4>2, <4>3, <2>1
    <3>4. ASSUME NEW l \in 1 .. k - 1 PROVE n[l].do # "endTry"
      <4>1. CASE l - e + 1 \in 2 .. i - 1 /\ n[l] = t[l - e + 1]
        BY <4>1 DEF Awaits
      <4> QED
        BY <4>1, <2>1
    <3> QED
      BY <3>1, <3>2, <3>3, <3>4 DEF Awaits
  <2>7. /\ t[i].do = "use" => t[i].monitor \in 1 .. count
        /\ caller # "command" => t[i].do \notin OnlyCommand
    BY <2>2, <2>3, SegmentFields DEF InOrderAt
  <2>8. ASSUME NEW j \in k + 1 .. Len(n) PROVE n[j].do \notin NotAfter(t[i])
    <3> DEFINE l == j - e + 1
    <3>2. e \in Nat /\ i \in Nat /\ i >= 2 /\ Len(t) \in Nat /\ Len(n) = e + Len(t) - 1 /\ k = e + i - 1
      BY <1>1, <1>2 DEF k
    <3>4. j \in Int /\ j >= (e + i - 1) + 1 /\ j <= e + Len(t) - 1
      BY <2>8, <3>2
    <3>3. l \in i + 1 .. Len(t) /\ e + l - 1 = j /\ l \in 2 .. Len(t)
      BY <3>2, <3>4
    <3>1. l \in i + 1 .. Len(t) /\ n[j] = t[l]
      BY <1>2, <3>3
    <3> QED
      BY <3>1, <2>2 DEF InOrderAt
  <2> QED
    BY <2>1, <2>3, <2>4, <2>5, <2>6, <2>7, <2>8 DEF InOrderAt, k
<1>7. ASSUME NEW i \in DOMAIN n PROVE InOrderAt(n, i, caller, wanted, count, promise, kept)
  <2>1. CASE i \in 1 .. e
    BY <1>5, <2>1
  <2>2. CASE i \notin 1 .. e
    <3>1. i - e + 1 \in 2 .. Len(t)
      BY <1>2, <2>2
    <3>2. e + (i - e + 1) - 1 = i
      BY <1>1, <1>3
    <3> QED
      BY <3>1, <3>2, <1>6
  <2> QED
    BY <2>1, <2>2
<1> QED
  BY <1>2, <1>7 DEF InOrder, n

LEMMA EmptyInOrder ==
    ASSUME NEW caller, NEW wanted, NEW count, NEW promise, NEW kept
    PROVE  InOrder(<<>>, caller, wanted, count, promise, kept)
BY DEF InOrder

\* Segments that send nothing, except the answer.
LEMMA QuietInOrder ==
    ASSUME NEW a \in Seq(Segments), NEW caller, NEW wanted, NEW count, NEW promise, NEW kept,
           \A i \in DOMAIN a :
              /\ ~ Tracks(a[i]) /\ a[i].do \notin {"request", "start", "use", "load", "initDone"}
              /\ a[i].do = "save" => i = 1 /\ (a[i].enabled => a[i].setting \in wanted)
              /\ \A j \in i + 1 .. Len(a) : a[j].do \notin NotAfter(a[i])
              /\ caller # "command" => a[i].do \notin OnlyCommand /\ a[i].do # "getStatus"
              /\ caller = "command" /\ TurnsOff(a[i]) => i = 1 /\ kept[a[i].setting] # "enabled"
    PROVE  InOrder(a, caller, wanted, count, promise, kept)
<1> SUFFICES ASSUME NEW i \in DOMAIN a PROVE InOrderAt(a, i, caller, wanted, count, promise, kept)
  BY DEF InOrder
<1> QED
  BY DEF InOrderAt

\* Segments that send what may be sent.
LEMMA SendingInOrder ==
    ASSUME NEW a \in Seq(Segments), NEW caller, NEW wanted, NEW count, NEW promise, NEW kept,
           \A i \in DOMAIN a :
              /\ a[i].do \in Sending \/ (a[i].do = "endTry" /\ i = Len(a))
              /\ a[i].do \in Sending => a[i].item.answer \/ a[i].item.setting \in wanted
              /\ a[i].do \in {"request", "start"} => i = 1 /\ Len(a) = 1
              /\ a[i].do \in {"start", "use"} => a[i].monitor \in 1 .. count
    PROVE  InOrder(a, caller, wanted, count, promise, kept)
<1> SUFFICES ASSUME NEW i \in DOMAIN a PROVE InOrderAt(a, i, caller, wanted, count, promise, kept)
  BY DEF InOrder
<1>1. Len(a) \in Nat /\ DOMAIN a = 1 .. Len(a)
  OBVIOUS
<1>2. a[i].do \in Sending => \A j \in 1 .. i - 1 : a[j].do \in Sending
  BY <1>1
<1>3. a[i].do = "request" => i = 1 /\ \A j \in 2 .. Len(a) : ~ Tracks(a[j])
  BY <1>1
<1>4. /\ a[i].do \in Sending => a[i].item.answer \/ a[i].item.setting \in wanted
      /\ a[i].do \in {"start", "load"} => i = 1
      /\ a[i].do \in {"start", "use"} => a[i].monitor \in 1 .. count
      /\ a[i].do \in Sending \cup {"endTry"}
  BY DEF Sending
<1>5. NotAfter(a[i]) = {}
  BY <1>4 DEF Sending, NotAfter, Asks
<1> QED
  BY <1>2, <1>3, <1>4, <1>5 DEF InOrderAt, Tracks, TurnsOff, Sending, OnlyCommand

-----------------------------------------------------------------------------
(***************************************************************************)
(* The state of the analytics.                                             *)
(***************************************************************************)
Monitors == [key : Keys, state : {"created", "running", "stopped"}, kept : BOOLEAN]

AnalyticsShape ==
    /\ todo \in [Callers -> Seq(Segments)]
    /\ statuses \in [Settings -> {"unloaded", "notConfirmed", "enabled", "disabled"}]
    /\ stored \in [Settings -> {"notConfirmed", "enabled", "disabled"}]
    /\ init \in {"no", "pending", "done", "failed"}
    /\ monitors \in Seq(Monitors)
    /\ current \in [Keys -> 0 .. Len(monitors)]
    /\ listening \in BOOLEAN /\ analyticsProcess \in {"runs", "ended"} /\ interrupts \in 0 .. MaxInterrupts
    /\ wish \in [Settings -> BOOLEAN] /\ wished \in [Callers -> SUBSET Settings]
    /\ sent \subseteq [item : Items, wanted : BOOLEAN, usage : BOOLEAN]

CallsInOrder ==
    \A c \in Callers : InOrder(todo[c], c, wished[c], Len(monitors), init, stored)

\* One call runs initAnalyticsStatuses.
OneInitializes ==
    \A c, d \in Callers : \A i \in DOMAIN todo[c], j \in DOMAIN todo[d] :
       todo[c][i].do = "initDone" /\ todo[d][j].do = "initDone" => c = d

\* The command asks for the setting no more.
Asked(s) == \A i \in DOMAIN todo["command"] : todo["command"][i].do \notin AsksFor(s)

\* What is known and what is in the file does not exceed what the user wants; a
\* file that does, because the setting was turned off and not saved yet, is not
\* read again.  The answer may be saved while it is known no more, because a report
\* read the file before and keeps what it read after; then the question is past.
StatusesFollowWishes ==
    \A s \in Settings :
       /\ wish[s] => \A d \in Callers : s \in wished[d]
       /\ s \in wished["command"] => wish[s]
       /\ statuses[s] = "enabled" => wish[s]
       /\ statuses[s] = "notConfirmed" => stored[s] = "notConfirmed" \/ Asked(s)
       /\ stored[s] = "enabled" =>
             \/ wish[s]
             \/ /\ statuses[s] # "unloaded"
                /\ \A c \in Callers : \A i \in DOMAIN todo[c] : todo[c][i].do = "load" => todo[c][i].setting # s

\* The monitor of a key, of a session that begins, and of one that was forgotten.
MonitorsAreKept ==
    /\ \A m \in DOMAIN monitors :
          /\ monitors[m].state # "stopped" /\ monitors[m].kept => current[monitors[m].key] = m
          /\ monitors[m].state = "running" => listening
    /\ \A k \in Keys : current[k] # 0 =>
          monitors[current[k]].key = k /\ monitors[current[k]].state # "stopped" /\ monitors[current[k]].kept
    /\ \A c \in Callers : \A i \in DOMAIN todo[c] : todo[c][i].do = "start" =>
          LET m == todo[c][i].monitor
          IN  /\ m \in DOMAIN monitors
              /\ monitors[m].state = "created" \/ ~ monitors[m].kept
              /\ \A d \in Callers : \A j \in DOMAIN todo[d] :
                    todo[d][j].do = "start" /\ todo[d][j].monitor = m => d = c
    /\ analyticsProcess = "ended" => \A k \in Keys : current[k] = 0 \/ monitors[current[k]].state = "created"

AnalyticsInv ==
    AnalyticsShape /\ CallsInOrder /\ OneInitializes /\ StatusesFollowWishes /\ MonitorsAreKept /\ ConsentRespected

\* No segment of a kind was added by a step.
NoneAdded(kind) ==
    \A d \in Callers : \A i \in DOMAIN todo'[d] :
       todo'[d][i].do = kind => \E j \in DOMAIN todo[d] : todo[d][j] = todo'[d][i]

\* What was asked for is not asked for again.
AskedRemain == \A s \in Settings : Asked(s) => Asked(s)'

\* The segments a ask for nothing that the segment g does not ask for, and leave
\* the same to come after them.
AsksNoMore(a, g) ==
    \A i \in DOMAIN a :
       /\ NotAfter(a[i]) \subseteq NotAfter(g)
       /\ \A s \in Settings : a[i].do \in AsksFor(s) => g.do \in AsksFor(s)

LEMMA NothingAsked ==
    ASSUME NEW a, NEW g, \A i \in DOMAIN a : a[i].do \notin Asks \cup {"setStatus", "save"}
    PROVE  AsksNoMore(a, g) /\ \A i \in DOMAIN a : NotAfter(a[i]) = {}
BY DEF AsksNoMore, NotAfter, Asks, AsksFor

\* What the other callers have to do stays in order.
LEMMA StaysInOrder ==
    ASSUME AnalyticsShape, CallsInOrder, NEW d \in Callers, todo'[d] = todo[d],
           wished[d] \subseteq wished'[d],
           Len(monitors') \in Nat, Len(monitors) <= Len(monitors'),
           init = "done" => init' = "done",
           init' = "pending" \/ init' = init \/ \A i \in DOMAIN todo[d] : todo[d][i].do # "initDone",
           d = "command" => stored' = stored
    PROVE  InOrder(todo'[d], d, wished'[d], Len(monitors'), init', stored')
<1> DEFINE t == todo[d]
           count == Len(monitors)
           count2 == Len(monitors')
<1>1. t \in Seq(Segments) /\ count \in Nat /\ count2 \in Nat /\ count <= count2
  BY DEF AnalyticsShape
<1>2. InOrder(t, d, wished[d], count, init, stored)
  BY DEF CallsInOrder
<1> HIDE DEF t, count, count2
<1> SUFFICES ASSUME NEW i \in DOMAIN t PROVE InOrderAt(t, i, d, wished'[d], count2, init', stored')
  BY <1>1 DEF InOrder, t, count2
<1>3. InOrderAt(t, i, d, wished[d], count, init, stored) /\ t[i] \in Segments
  BY <1>1, <1>2 DEF InOrder
<1>4. /\ t[i].do = "save" => i = 1 /\ (t[i].enabled => t[i].setting \in wished'[d])
      /\ \A j \in i + 1 .. Len(t) : t[j].do \notin NotAfter(t[i])
  BY <1>3 DEF InOrderAt, t
<1>5. t[i].do \in {"start", "use"} => t[i].monitor \in 1 .. count2
  BY <1>1, <1>3, SegmentFields DEF InOrderAt
<1>6. d = "command" /\ TurnsOff(t[i]) => init' = "done" \/ Awaits(t, i) \/ (i = 1 /\ stored'[t[i].setting] # "enabled")
  BY <1>3 DEF InOrderAt
<1>7. t[i].do = "initDone" => init' = "pending" /\ \A j \in 1 .. i - 1 : t[j].do \in {"getStatus", "load"}
  BY <1>3 DEF InOrderAt, t
<1>8. Tracks(t[i]) => t[i].item.setting \in wished'[d] /\ \A j \in 1 .. i - 1 : t[j].do \in Sending
  BY <1>3 DEF InOrderAt
<1> QED
  BY <1>3, <1>4, <1>5, <1>6, <1>7, <1>8 DEF InOrderAt

\* The effect of a segment that ends on what all callers have to do.
LEMMA ThenKeeps ==
    ASSUME AnalyticsShape, CallsInOrder, NEW c \in Callers, todo[c] # <<>>, NEW a \in Seq(Segments), Then(c, a),
           InOrder(a \o Tail(todo[c]), c, wished'[c], Len(monitors'), init', stored'),
           \A d \in Callers \ {c} : wished[d] \subseteq wished'[d],
           Len(monitors') \in Nat, Len(monitors) <= Len(monitors'),
           init = "done" => init' = "done",
           init' = "pending" \/ init' = init \/ (\A d \in Callers \ {c} : \A i \in DOMAIN todo[d] : todo[d][i].do # "initDone"),
           AsksNoMore(a, todo[c][1]),
           c = "command" \/ stored' = stored
    PROVE  /\ todo' \in [Callers -> Seq(Segments)]
           /\ CallsInOrder' /\ AskedRemain
           /\ \A kind \in {"start", "load", "initDone"} : (\A i \in DOMAIN a : a[i].do # kind) => NoneAdded(kind)
<1>1. todo \in [Callers -> Seq(Segments)] /\ todo' = [todo EXCEPT ![c] = a \o Tail(todo[c])] /\ Len(monitors) \in Nat
  BY DEF AnalyticsShape, Then
<1>2. /\ a \o Tail(todo[c]) \in Seq(Segments)
      /\ \A i \in 1 .. Len(a) : (a \o Tail(todo[c]))[i] = a[i]
      /\ \A i \in DOMAIN (a \o Tail(todo[c])) :
            i \in 1 .. Len(a) \/ (i - Len(a) + 1 \in 2 .. Len(todo[c]) /\ (a \o Tail(todo[c]))[i] = todo[c][i - Len(a) + 1])
  BY <1>1, GoesOn
<1>3. ASSUME NEW d \in Callers PROVE InOrder(todo'[d], d, wished'[d], Len(monitors'), init', stored')
  <2>1. CASE d = c
    BY <1>1, <2>1
  <2>2. CASE d # c
    <3>1. InOrder(todo[d], d, wished[d], Len(monitors), init, stored) /\ todo'[d] = todo[d]
      BY <1>1, <2>2 DEF CallsInOrder
    <3>2. /\ wished[d] \subseteq wished'[d]
          /\ init' = "pending" \/ init' = init \/ \A i \in DOMAIN todo[d] : todo[d][i].do # "initDone"
          /\ d = "command" => stored' = stored
      BY <2>2
    <3> QED
      BY <1>1, <3>1, <3>2, StaysInOrder
  <2> QED
    BY <2>1, <2>2
<1>4. ASSUME NEW kind \in {"start", "load", "initDone"}, \A i \in DOMAIN a : a[i].do # kind PROVE NoneAdded(kind)
  <2> SUFFICES ASSUME NEW d \in Callers, NEW i \in DOMAIN todo'[d], todo'[d][i].do = kind
               PROVE  \E j \in DOMAIN todo[d] : todo[d][j] = todo'[d][i]
    BY DEF NoneAdded
  <2>1. CASE d = c
    <3>1. i \notin 1 .. Len(a)
      BY <1>1, <1>2, <1>4, <2>1
    <3>2. i - Len(a) + 1 \in DOMAIN todo[c] /\ todo'[c][i] = todo[c][i - Len(a) + 1]
      BY <1>1, <1>2, <2>1, <3>1
    <3> QED
      BY <2>1, <3>2
  <2>2. CASE d # c
    BY <1>1, <2>2
  <2> QED
    BY <2>1, <2>2
<1>5. AskedRemain
  <2> SUFFICES ASSUME NEW s \in Settings, Asked(s), NEW i \in DOMAIN todo'["command"]
               PROVE  todo'["command"][i].do \notin AsksFor(s)
    BY DEF AskedRemain, Asked
  <2>1. "command" \in Callers
    BY DEF Callers
  <2>2. CASE c = "command"
    <3>1. CASE i \in 1 .. Len(a)
      <4>1. i \in DOMAIN a /\ todo'["command"][i] = a[i]
        BY <1>1, <1>2, <2>2, <3>1
      <4>2. 1 \in DOMAIN todo[c]
        <5>1. Len(todo[c]) \in Nat /\ Len(todo[c]) >= 1
          BY <1>1, EmptySeq
        <5> QED
          BY <1>1, <5>1
      <4> QED
        BY <2>2, <4>1, <4>2 DEF AsksNoMore, Asked
    <3>2. CASE i \notin 1 .. Len(a)
      <4>1. i - Len(a) + 1 \in DOMAIN todo[c] /\ todo'["command"][i] = todo[c][i - Len(a) + 1]
        BY <1>1, <1>2, <2>2, <3>2
      <4> QED
        BY <2>2, <4>1 DEF Asked
    <3> QED
      BY <3>1, <3>2
  <2>3. CASE c # "command"
    BY <1>1, <2>1, <2>3 DEF Asked
  <2> QED
    BY <2>2, <2>3
<1> QED
  BY <1>1, <1>2, <1>3, <1>4, <1>5 DEF CallsInOrder

\* What is known of the segment that runs.
LEMMA SegmentRuns ==
    ASSUME AnalyticsShape, CallsInOrder, NEW c \in Callers, NEW kind, Segment(c, kind)
    PROVE  /\ todo[c] \in Seq(Segments) /\ todo[c] # <<>> /\ 1 \in DOMAIN todo[c] /\ analyticsProcess = "runs"
           /\ Head(todo[c]) = todo[c][1] /\ todo[c][1] \in Segments /\ todo[c][1].do = kind
           /\ InOrder(todo[c], c, wished[c], Len(monitors), init, stored)
           /\ InOrderAt(todo[c], 1, c, wished[c], Len(monitors), init, stored)
<1>1. todo[c] \in Seq(Segments) /\ todo[c] # <<>> /\ Head(todo[c]).do = kind /\ analyticsProcess = "runs"
  BY DEF AnalyticsShape, Segment
<1>2. Len(todo[c]) \in Nat /\ Len(todo[c]) >= 1 /\ Head(todo[c]) = todo[c][1]
  BY <1>1, EmptySeq
<1>3. 1 \in DOMAIN todo[c]
  BY <1>1, <1>2
<1>4. InOrder(todo[c], c, wished[c], Len(monitors), init, stored)
  BY DEF CallsInOrder
<1> QED
  BY <1>1, <1>2, <1>3, <1>4 DEF InOrder

LEMMA OneStillInitializes ==
    ASSUME OneInitializes, NoneAdded("initDone")
    PROVE  OneInitializes'
BY DEF OneInitializes, NoneAdded

\* A call that goes on without a change of init.
LEMMA CallGoesOn ==
    ASSUME AnalyticsShape, CallsInOrder, OneInitializes, NEW c \in Callers, todo[c] # <<>>,
           todo[c][1].do \notin Initializing, NEW a \in Seq(Segments), Then(c, a),
           InOrder(a, c, wished'[c], Len(monitors'), init', stored'),
           \A i \in DOMAIN a : a[i].do # "initDone",
           AsksNoMore(a, todo[c][1]),
           \A d \in Callers \ {c} : wished[d] \subseteq wished'[d],
           wished[c] \subseteq wished'[c] \/ todo[c][1].do \notin Sending,
           todo[c][1].do \notin Sending
              \/ ((todo[c][1].do = "request" \/ \A i \in DOMAIN a : a[i].do \in Sending) /\ \A i \in DOMAIN a : a[i].do # "request"),
           Len(monitors') \in Nat, Len(monitors) <= Len(monitors'),
           init' = init, c = "command" \/ stored' = stored
    PROVE  /\ todo' \in [Callers -> Seq(Segments)] /\ CallsInOrder' /\ OneInitializes' /\ AskedRemain
           /\ \A kind \in {"start", "load"} : (\A i \in DOMAIN a : a[i].do # kind) => NoneAdded(kind)
<1> DEFINE t == todo[c]
           wanted == wished[c]
           wanted2 == wished'[c]
           count == Len(monitors)
           count2 == Len(monitors')
<1>1. /\ InOrder(t, c, wanted, count, init, stored)
      /\ count \in Nat /\ count2 \in Nat /\ count <= count2
      /\ t # <<>> /\ t[1].do \notin Initializing
      /\ InOrder(a, c, wanted2, count2, init', stored')
      /\ wanted \subseteq wanted2 \/ t[1].do \notin Sending
      /\ t[1].do \notin Sending
            \/ ((t[1].do = "request" \/ \A i \in DOMAIN a : a[i].do \in Sending) /\ \A i \in DOMAIN a : a[i].do # "request")
      /\ \A i \in DOMAIN a : NotAfter(a[i]) \subseteq NotAfter(t[1])
  BY DEF CallsInOrder, AnalyticsShape, AsksNoMore
<1>2. t[1].do \notin {"getStatus", "load"}
  BY <1>1 DEF Initializing
<1>3. InOrder(a \o Tail(t), c, wanted2, count2, init', stored')
  <2> HIDE DEF t, wanted, wanted2, count, count2
  <2> QED
    BY <1>1, <1>2, GoesOnInOrder
<1>4. /\ todo' \in [Callers -> Seq(Segments)] /\ CallsInOrder' /\ AskedRemain
      /\ \A kind \in {"start", "load", "initDone"} : (\A i \in DOMAIN a : a[i].do # kind) => NoneAdded(kind)
  BY <1>3, ThenKeeps
<1>5. OneInitializes'
  BY <1>4, OneStillInitializes
<1> QED
  BY <1>4, <1>5

\* The segments of a tracked exception, as they are written out.
LEMMA TrackSegments ==
    ASSUME NEW s \in Settings
    PROVE  /\ Track(s) = <<[do |-> "initStatuses"], [do |-> "track", item |-> Tracking(s)]>>
           /\ Track(s) \o Do("endTry") = <<[do |-> "initStatuses"], [do |-> "track", item |-> Tracking(s)], [do |-> "endTry"]>>
           /\ Track(s) \o Do("endTry") \o Do("exit")
                 = <<[do |-> "initStatuses"], [do |-> "track", item |-> Tracking(s)], [do |-> "endTry"], [do |-> "exit"]>>
           /\ [do |-> "initStatuses"] \in Segments /\ [do |-> "track", item |-> Tracking(s)] \in Segments
           /\ [do |-> "endTry"] \in Segments /\ [do |-> "exit"] \in Segments
<1>1. Track(s) = <<[do |-> "initStatuses"], [do |-> "track", item |-> Tracking(s)]>>
  BY TupleOfTwo DEF Track, Do
<1>2. Track(s) \o Do("endTry") = <<[do |-> "initStatuses"], [do |-> "track", item |-> Tracking(s)], [do |-> "endTry"]>>
  BY <1>1, TupleOfThree DEF Do
<1>3. Track(s) \o Do("endTry") \o Do("exit")
        = <<[do |-> "initStatuses"], [do |-> "track", item |-> Tracking(s)], [do |-> "endTry"], [do |-> "exit"]>>
  BY <1>2, TupleOfFour DEF Do
<1>4. Tracking(s) \in Items
  BY DEF Tracking, Items
<1>5. [do |-> "track", item |-> Tracking(s)] \in Segments
  BY <1>4 DEF Segments
<1>6. [do |-> "initStatuses"] \in Segments /\ [do |-> "endTry"] \in Segments /\ [do |-> "exit"] \in Segments
  BY DEF Segments
<1> QED
  BY <1>1, <1>2, <1>3, <1>5, <1>6

\* What a caller that was rejected still has to do.
LEMMA AfterRejectInOrder ==
    ASSUME AnalyticsShape, CallsInOrder, NEW c \in Callers, NEW promise, init = "done" => promise = "done"
    PROVE  /\ InOrder(AfterReject(c), c, wished[c], Len(monitors), promise, stored)
           /\ \A i \in DOMAIN AfterReject(c) :
                 /\ AfterReject(c)[i].do \notin {"start", "load", "initDone"}
                 /\ AfterReject(c)[i].do \in Asks => \E j \in DOMAIN todo[c] : todo[c][j] = AfterReject(c)[i]
<1> DEFINE t == todo[c]
           catches == {i \in DOMAIN t : t[i].do = "endTry"}
<1>1. t \in Seq(Segments) /\ InOrder(t, c, wished[c], Len(monitors), init, stored)
  BY DEF AnalyticsShape, CallsInOrder
<1>2. CASE catches # {}
  <2>1. Min(catches) \in catches
    <3>1. catches \in SUBSET Nat
      BY <1>1
    <3> HIDE DEF catches
    <3> QED
      BY <1>2, <3>1, SmallestNumber
  <2>2. Min(catches) \in DOMAIN t /\ t[Min(catches)].do = "endTry"
    BY <2>1
  <2>3. AfterReject(c) = SubSeq(t, Min(catches) + 1, Len(t))
    BY <1>2 DEF AfterReject
  <2> DEFINE p == Min(catches)
             n == SubSeq(t, p + 1, Len(t))
  <2> HIDE DEF t, catches, p
  <2>4. \A i \in DOMAIN n : p + i \in DOMAIN t /\ n[i] = t[p + i]
    BY <1>1, <2>2, Remains DEF p
  <2>5. \A i \in DOMAIN n : \E j \in DOMAIN t : t[j] = n[i]
    BY <2>4
  <2>6. /\ InOrder(n, c, wished[c], Len(monitors), promise, stored)
        /\ \A i \in DOMAIN n : n[i].do \notin {"start", "load", "initDone"}
    BY <1>1, <2>2, RemainsInOrder DEF p
  <2>7. AfterReject(c) = n
    BY <2>3 DEF p
  <2> HIDE DEF n
  <2> QED
    BY <2>5, <2>6, <2>7 DEF t
<1>3. CASE catches = {}
  <2> DEFINE a == TrackException \o Do("endTry") \o Do("exit")
  <2>1. AfterReject(c) = a
    BY <1>3 DEF AfterReject
  <2>2. a = <<[do |-> "initStatuses"], [do |-> "track", item |-> Tracking(Errors)], [do |-> "endTry"], [do |-> "exit"]>>
    BY TrackSegments DEF TrackException, Settings
  <2> HIDE DEF a
  <2>3. a \in Seq(Segments)
    BY <2>2, TrackSegments DEF Settings
  <2>4. \A i \in DOMAIN a : a[i].do \in {"initStatuses", "track", "endTry", "exit"}
    BY <2>2
  <2>5. \A i \in DOMAIN a :
           /\ ~ Tracks(a[i]) /\ a[i].do \notin {"request", "start", "use", "load", "initDone"}
           /\ a[i].do # "save" /\ a[i].do \notin OnlyCommand /\ a[i].do # "getStatus" /\ ~ TurnsOff(a[i])
           /\ NotAfter(a[i]) = {} /\ a[i].do \notin Asks
    BY <2>4 DEF Tracks, TurnsOff, OnlyCommand, Sending, NotAfter, Asks
  <2>6. InOrder(a, c, wished[c], Len(monitors), promise, stored)
    BY <2>3, <2>5, QuietInOrder
  <2> QED
    BY <2>1, <2>5, <2>6
<1> QED
  BY <1>2, <1>3

\* The rejection of a call.
LEMMA RejectKeeps ==
    ASSUME AnalyticsShape, CallsInOrder, OneInitializes, NEW c \in Callers, Reject(c),
           UNCHANGED <<statuses, stored, monitors, wished>>
    PROVE  /\ todo' \in [Callers -> Seq(Segments)] /\ CallsInOrder' /\ OneInitializes' /\ AskedRemain
           /\ NoneAdded("start") /\ NoneAdded("load") /\ init' \in {init, "failed"}
<1> DEFINE n == AfterReject(c)
<1>1. todo \in [Callers -> Seq(Segments)] /\ todo' = [todo EXCEPT ![c] = n] /\ Len(monitors) \in Nat
  BY DEF AnalyticsShape, Reject
<1>2. init' = IF \E i \in DOMAIN todo[c] : todo[c][i].do = "initDone" THEN "failed" ELSE init
  BY DEF Reject
<1>3. ASSUME NEW i \in DOMAIN todo[c], todo[c][i].do = "initDone" PROVE init = "pending"
  BY <1>3 DEF CallsInOrder, InOrder, InOrderAt
<1>4. init = "done" => init' = "done"
  BY <1>2, <1>3
<1>5. /\ InOrder(n, c, wished[c], Len(monitors), init', stored)
      /\ \A i \in DOMAIN n :
            /\ n[i].do \notin {"start", "load", "initDone"}
            /\ n[i].do \in Asks => \E j \in DOMAIN todo[c] : todo[c][j] = n[i]
  BY <1>4, AfterRejectInOrder
<1>6. n \in Seq(Segments)
  BY <1>5 DEF InOrder
<1> HIDE DEF n
<1>7. ASSUME NEW d \in Callers, d # c PROVE init' = init \/ \A i \in DOMAIN todo[d] : todo[d][i].do # "initDone"
  BY <1>2, <1>7 DEF OneInitializes
<1>8. ASSUME NEW d \in Callers PROVE InOrder(todo'[d], d, wished'[d], Len(monitors'), init', stored')
  <2>1. CASE d = c
    BY <1>1, <1>5, <2>1
  <2>2. CASE d # c
    <3>1. todo'[d] = todo[d]
      BY <1>1, <2>2
    <3> QED
      BY <1>1, <1>4, <1>7, <2>2, <3>1, StaysInOrder
  <2> QED
    BY <2>1, <2>2
<1>9. ASSUME NEW kind \in {"start", "load", "initDone"} PROVE NoneAdded(kind)
  <2> SUFFICES ASSUME NEW d \in Callers, NEW i \in DOMAIN todo'[d], todo'[d][i].do = kind
               PROVE  \E j \in DOMAIN todo[d] : todo[d][j] = todo'[d][i]
    BY DEF NoneAdded
  <2> QED
    BY <1>1, <1>5
<1>10. OneInitializes'
  BY <1>9, OneStillInitializes
<1>11. AskedRemain
  <2> SUFFICES ASSUME NEW s \in Settings, Asked(s), NEW i \in DOMAIN todo'["command"]
               PROVE  todo'["command"][i].do \notin AsksFor(s)
    BY DEF AskedRemain, Asked
  <2>1. "command" \in Callers /\ AsksFor(s) \subseteq Asks
    BY DEF Callers, AsksFor, Asks
  <2>2. CASE c = "command"
    BY <1>1, <1>5, <2>1, <2>2 DEF Asked
  <2>3. CASE c # "command"
    BY <1>1, <2>1, <2>3 DEF Asked
  <2> QED
    BY <2>2, <2>3
<1> QED
  BY <1>1, <1>2, <1>6, <1>8, <1>9, <1>10, <1>11 DEF CallsInOrder

CallsStep == todo' \in [Callers -> Seq(Segments)] /\ CallsInOrder' /\ OneInitializes' /\ AskedRemain
NothingBegins == NoneAdded("start") /\ NoneAdded("load")

\* Two sequences of segments put together.
LEMMA SegmentsJoin ==
    ASSUME NEW p \in Seq(Segments), NEW q \in Seq(Segments)
    PROVE  /\ p \o q \in Seq(Segments) /\ Len(p \o q) = Len(p) + Len(q)
           /\ \A i \in DOMAIN (p \o q) :
                 \/ i \in DOMAIN p /\ (p \o q)[i] = p[i]
                 \/ i > Len(p) /\ i - Len(p) \in DOMAIN q /\ (p \o q)[i] = q[i - Len(p)]
<1>1. /\ p \o q \in Seq(Segments)
      /\ Len(p \o q) = Len(p) + Len(q)
      /\ \A i \in 1 .. Len(p) + Len(q) : (p \o q)[i] = IF i <= Len(p) THEN p[i] ELSE q[i - Len(p)]
  BY ConcatProperties
<1>2. DOMAIN p = 1 .. Len(p) /\ DOMAIN q = 1 .. Len(q) /\ DOMAIN (p \o q) = 1 .. Len(p) + Len(q) /\ Len(p) \in Nat /\ Len(q) \in Nat
  BY <1>1
<1> QED
  BY <1>1, <1>2

\* sendDataToEqatecMonitors
LEMMA TrySendSegments ==
    ASSUME NEW keys \in {FeatureKeys, ExceptionKeys}, NEW item \in Items
    PROVE  /\ TrySend(keys, item) \in Seq(Segments)
           /\ \A i \in DOMAIN TrySend(keys, item) :
                 \/ TrySend(keys, item)[i].do = "send" /\ TrySend(keys, item)[i].item = item
                 \/ TrySend(keys, item)[i].do = "endTry" /\ i = Len(TrySend(keys, item))
<1> DEFINE p == [i \in DOMAIN keys |-> [do |-> "send", key |-> keys[i], item |-> item]]
<1>1. keys \in Seq(Keys)
  <2>1. keys \in Seq(Range(keys))
    BY AnalyticsAssumption
  <2>2. Range(keys) \subseteq Keys
    BY DEF Keys
  <2> QED
    BY <2>1, <2>2, SeqMonotonic
<1>2. DOMAIN keys = 1 .. Len(keys) /\ Len(keys) \in Nat /\ \A i \in DOMAIN keys : keys[i] \in Keys
  BY <1>1
<1>3. \A i \in DOMAIN keys : [do |-> "send", key |-> keys[i], item |-> item] \in Segments
  BY <1>2 DEF Segments
<1>4. p \in Seq(Segments)
  BY <1>2, <1>3
<1>5. Do("endTry") \in Seq(Segments) /\ Len(Do("endTry")) = 1 /\ Do("endTry")[1].do = "endTry" /\ DOMAIN Do("endTry") = {1}
  BY DEF Do, Segments
<1>6. TrySend(keys, item) = p \o Do("endTry")
  BY DEF TrySend
<1>7. \A i \in DOMAIN p : p[i].do = "send" /\ p[i].item = item
  OBVIOUS
<1>8. Len(p) \in Nat
  BY <1>4
<1> HIDE DEF p
<1> QED
  BY <1>4, <1>5, <1>6, <1>7, <1>8, SegmentsJoin

\* A segment that ends with nothing more to do.
LEMMA CallDrops ==
    ASSUME AnalyticsShape, CallsInOrder, OneInitializes, NEW c \in Callers, todo[c] # <<>>,
           todo[c][1].do \notin Initializing, Then(c, <<>>),
           UNCHANGED <<wished, statuses, init>>, Len(monitors') = Len(monitors), c = "command" \/ stored' = stored
    PROVE  CallsStep /\ NothingBegins
<1>1. /\ InOrder(<<>>, c, wished'[c], Len(monitors'), init', stored')
      /\ \A i \in DOMAIN <<>> : FALSE
      /\ <<>> \in Seq(Segments) /\ AsksNoMore(<<>>, todo[c][1])
  BY EmptyInOrder DEF AsksNoMore
<1>2. /\ \A d \in Callers : wished[d] \subseteq wished'[d]
      /\ Len(monitors') \in Nat /\ Len(monitors) <= Len(monitors')
  BY DEF AnalyticsShape
<1>3. todo' \in [Callers -> Seq(Segments)] /\ CallsInOrder' /\ OneInitializes' /\ AskedRemain /\ NoneAdded("start") /\ NoneAdded("load")
  BY <1>1, <1>2, CallGoesOn
<1> QED
  BY <1>3 DEF CallsStep, NothingBegins

\* A segment that ends with others, when neither wishes nor statuses change.
LEMMA CallContinues ==
    ASSUME AnalyticsShape, CallsInOrder, OneInitializes, NEW c \in Callers, todo[c] # <<>>,
           todo[c][1].do \notin Initializing, NEW a \in Seq(Segments), Then(c, a),
           InOrder(a, c, wished[c], Len(monitors'), init, stored),
           \A i \in DOMAIN a : a[i].do # "initDone", AsksNoMore(a, todo[c][1]),
           todo[c][1].do \notin Sending
              \/ ((todo[c][1].do = "request" \/ \A i \in DOMAIN a : a[i].do \in Sending) /\ \A i \in DOMAIN a : a[i].do # "request"),
           Len(monitors') \in Nat, Len(monitors) <= Len(monitors'),
           UNCHANGED <<wished, statuses, stored, init>>
    PROVE  CallsStep /\ \A kind \in {"start", "load"} : (\A i \in DOMAIN a : a[i].do # kind) => NoneAdded(kind)
<1>1. /\ \A d \in Callers : wished[d] \subseteq wished'[d]
      /\ InOrder(a, c, wished'[c], Len(monitors'), init', stored')
  OBVIOUS
<1> QED
  BY <1>1, CallGoesOn DEF CallsStep

-----------------------------------------------------------------------------
(* What each segment leaves to do is in order *)

LEMMA ReportKeepsCalls ==
    ASSUME AnalyticsInv, NEW c \in Callers, ReportException(c)
    PROVE  CallsStep /\ NothingBegins
<1>1. AnalyticsShape /\ CallsInOrder /\ OneInitializes
  BY DEF AnalyticsInv
<1>2. todo[c] # <<>> /\ todo[c][1].do = "report"
  BY <1>1, SegmentRuns DEF ReportException
<1>3. PICK last \in {<<>>, Do("exit")} : Then(c, TrackException \o Do("endTry") \o last)
  BY DEF ReportException
<1> DEFINE a == TrackException \o Do("endTry") \o last
<1>4. /\ a \in Seq(Segments)
      /\ \A i \in DOMAIN a : a[i].do \in {"initStatuses", "track", "endTry", "exit"}
  <2>1. TrackException \o Do("endTry") = <<[do |-> "initStatuses"], [do |-> "track", item |-> Tracking(Errors)], [do |-> "endTry"]>>
    BY TrackSegments DEF TrackException, Settings
  <2>2. CASE last = Do("exit")
    <3>1. a = <<[do |-> "initStatuses"], [do |-> "track", item |-> Tracking(Errors)], [do |-> "endTry"], [do |-> "exit"]>>
      BY <2>2, TrackSegments DEF TrackException, Settings
    <3> HIDE DEF a
    <3> QED
      BY <3>1, TrackSegments DEF Settings
  <2>3. CASE last = <<>>
    <3>1. TrackException \o Do("endTry") \in Seq(Segments)
      <4> DEFINE b == TrackException \o Do("endTry")
      <4> HIDE DEF b
      <4>1. b = <<[do |-> "initStatuses"], [do |-> "track", item |-> Tracking(Errors)], [do |-> "endTry"]>>
        BY <2>1 DEF b
      <4>2. b \in Seq(Segments)
        BY <4>1, TrackSegments DEF Settings
      <4> QED
        BY <4>2 DEF b
    <3>2. a = <<[do |-> "initStatuses"], [do |-> "track", item |-> Tracking(Errors)], [do |-> "endTry"]>>
      BY <2>1, <2>3, <3>1, ConcatEmptySeq
    <3> HIDE DEF a
    <3> QED
      BY <3>2, TrackSegments DEF Settings
  <2> QED
    BY <2>2, <2>3
<1> HIDE DEF a
<1>5. \A i \in DOMAIN a :
         /\ ~ Tracks(a[i]) /\ a[i].do \notin {"request", "start", "use", "load", "initDone"}
         /\ a[i].do # "save" /\ a[i].do \notin OnlyCommand /\ a[i].do # "getStatus" /\ ~ TurnsOff(a[i])
         /\ a[i].do \notin Asks \cup {"setStatus", "save"}
  BY <1>4 DEF Tracks, TurnsOff, OnlyCommand, Sending, Asks
<1>11. AsksNoMore(a, todo[c][1]) /\ \A i \in DOMAIN a : NotAfter(a[i]) = {}
  BY <1>5, NothingAsked
<1>6. InOrder(a, c, wished'[c], Len(monitors'), init', stored')
  BY <1>4, <1>5, <1>11, QuietInOrder
<1>7. /\ wished' = [wished EXCEPT ![c] = {s \in Settings : wish[s]}] /\ wished \in [Callers -> SUBSET Settings]
      /\ UNCHANGED <<monitors, statuses, stored, init>> /\ Len(monitors) \in Nat
  BY <1>1 DEF ReportException, AnalyticsShape
<1>8. Then(c, a) /\ todo[c][1].do \notin Initializing \cup Sending
  BY <1>2, <1>3 DEF a, Initializing, Sending
<1>9. /\ \A d \in Callers \ {c} : wished[d] \subseteq wished'[d]
      /\ Len(monitors') \in Nat /\ Len(monitors) <= Len(monitors')
  BY <1>7
<1>10. CallsStep /\ \A kind \in {"start", "load"} : (\A i \in DOMAIN a : a[i].do # kind) => NoneAdded(kind)
  BY <1>1, <1>2, <1>4, <1>5, <1>6, <1>7, <1>8, <1>9, <1>11, CallGoesOn DEF CallsStep
<1> QED
  BY <1>5, <1>10 DEF NothingBegins

LEMMA ConsentKeepsCalls ==
    ASSUME AnalyticsInv, NEW c \in Callers, CheckConsent(c) \/ Confirm(c) \/ TellAnswer(c) \/ ConfirmErrors(c)
    PROVE  CallsStep /\ NothingBegins
<1>1. AnalyticsShape /\ CallsInOrder /\ OneInitializes /\ StatusesFollowWishes
  BY DEF AnalyticsInv
<1>2. PICK kind \in {"checkConsent", "confirm", "tell", "confirmErrors"} : Segment(c, kind)
  BY DEF CheckConsent, Confirm, TellAnswer, ConfirmErrors
<1>3. todo[c] # <<>> /\ todo[c][1].do = kind /\ Head(todo[c]) = todo[c][1] /\ todo[c][1] \in Segments
  BY <1>1, <1>2, SegmentRuns
<1>4. c = "command"
  <2>1. InOrderAt(todo[c], 1, c, wished[c], Len(monitors), init, stored)
    BY <1>1, <1>2, SegmentRuns
  <2> QED
    BY <1>3, <2>1 DEF InOrderAt, OnlyCommand
<1>5. UNCHANGED <<wished, statuses, stored, init, monitors>> /\ Len(monitors) \in Nat
  BY <1>1 DEF CheckConsent, Confirm, TellAnswer, ConfirmErrors, StatusUnchanged, AnalyticsShape
<1>6. todo[c][1].do \notin Initializing \cup Sending
  BY <1>3 DEF Initializing, Sending
<1>7. CASE Then(c, <<>>)
  BY <1>1, <1>3, <1>5, <1>6, <1>7, CallDrops
<1>8. ASSUME NEW a \in Seq(Segments), Then(c, a),
             AsksNoMore(a, todo[c][1]),
             \A i \in DOMAIN a :
                /\ ~ Tracks(a[i]) /\ a[i].do \notin {"request", "start", "use", "load", "initDone", "save"}
                /\ TurnsOff(a[i]) => i = 1 /\ stored[a[i].setting] # "enabled"
                /\ \A j \in i + 1 .. Len(a) : a[j].do \notin NotAfter(a[i])
      PROVE  CallsStep /\ NothingBegins
  <2>1. InOrder(a, c, wished[c], Len(monitors), init, stored)
    BY <1>4, <1>8, QuietInOrder
  <2>2. /\ InOrder(a, c, wished[c], Len(monitors'), init, stored)
        /\ Len(monitors') \in Nat /\ Len(monitors) <= Len(monitors')
        /\ todo[c][1].do \notin Initializing /\ todo[c][1].do \notin Sending
        /\ \A i \in DOMAIN a : a[i].do \notin {"initDone", "start", "load"}
    BY <1>5, <1>6, <1>8, <2>1
  <2>3. CallsStep /\ \A k \in {"start", "load"} : (\A i \in DOMAIN a : a[i].do # k) => NoneAdded(k)
    BY <1>1, <1>3, <1>5, <1>8, <2>2, CallContinues
  <2> QED
    BY <2>2, <2>3 DEF NothingBegins
<1>9. \A s \in Settings : GetStatus(s) \in Seq(Segments) /\ Len(GetStatus(s)) = 1 /\ \A i \in DOMAIN GetStatus(s) : GetStatus(s)[i].do = "getStatus"
  BY DEF GetStatus, Segments
<1>10. CASE CheckConsent(c)
  <2>1. CASE Then(c, GetStatus(Usage) \o Do("confirm"))
    <3> DEFINE a == GetStatus(Usage) \o Do("confirm")
    <3>1. a = <<[do |-> "getStatus", setting |-> Usage], [do |-> "confirm"]>>
      BY TupleOfTwo DEF GetStatus, Do
    <3> HIDE DEF a
    <3>2. a \in Seq(Segments)
      BY <3>1 DEF Segments, Settings
    <3>3. \A i \in DOMAIN a : a[i].do \in {"getStatus", "confirm"}
      BY <3>1
    <3>4. \A i \in DOMAIN a : ~ Tracks(a[i]) /\ ~ TurnsOff(a[i])
      BY <3>3 DEF Tracks, TurnsOff, Sending
    <3>5. todo[c][1].do = "checkConsent"
      BY <1>1, <1>10, SegmentRuns DEF CheckConsent
    <3>6. AsksNoMore(a, todo[c][1])
      BY <3>3, <3>5 DEF AsksNoMore, NotAfter, Asks, AsksFor
    <3>7. \A i \in DOMAIN a : \A j \in i + 1 .. Len(a) : a[j].do \notin NotAfter(a[i])
      <4>1. DOMAIN a = 1 .. 2 /\ Len(a) = 2 /\ a[1].do = "getStatus"
        BY <3>1
      <4>2. NotAfter(a[1]) = {}
        BY <4>1 DEF NotAfter, Asks
      <4> QED
        BY <4>1, <4>2
    <3> QED
      BY <1>8, <2>1, <3>2, <3>3, <3>4, <3>6, <3>7 DEF a
  <2> QED
    BY <1>7, <1>10, <2>1 DEF CheckConsent
<1>11. CASE ConfirmErrors(c)
  <2> DEFINE e == todo[c][1].enabled
             a == SetStatus(Errors, e)
  <2>4. 1 \in DOMAIN todo[c] /\ todo[c][1].do = "confirmErrors"
    BY <1>1, <1>11, SegmentRuns DEF ConfirmErrors
  <2>5. ~ Asked(Errors)
    BY <1>4, <2>4 DEF Asked, AsksFor, Asks, Usage, Errors
  <2>1. CASE Then(c, a) /\ statuses[Errors] = "notConfirmed"
    <3>1. todo[c][1].do = "confirmErrors"
      BY <2>4
    <3>2. e \in BOOLEAN
      BY <1>3, <3>1, SegmentFields
    <3>3. a = <<[do |-> "setStatus", setting |-> Errors, enabled |-> e]>>
      BY DEF SetStatus
    <3>4. stored[Errors] # "enabled"
      BY <1>1, <2>1, <2>5 DEF StatusesFollowWishes, Settings
    <3> HIDE DEF e
    <3>5. a \in Seq(Segments) /\ DOMAIN a = {1} /\ a[1].do = "setStatus" /\ a[1].setting = Errors
      <4>1. [do |-> "setStatus", setting |-> Errors, enabled |-> e] \in Segments
        BY <3>2 DEF Segments, Settings
      <4> QED
        BY <3>3, <4>1
    <3> HIDE DEF a
    <3>6. \A i \in DOMAIN a :
             /\ ~ Tracks(a[i]) /\ a[i].do \notin {"request", "start", "use", "load", "initDone", "save"}
             /\ TurnsOff(a[i]) => i = 1 /\ stored[a[i].setting] # "enabled"
             /\ \A j \in i + 1 .. Len(a) : a[j].do \notin NotAfter(a[i])
      BY <3>4, <3>5 DEF Tracks, Sending
    <3>7. AsksNoMore(a, todo[c][1])
      BY <3>1, <3>5 DEF AsksNoMore, NotAfter, Asks, AsksFor
    <3> QED
      BY <1>8, <2>1, <3>5, <3>6, <3>7
  <2>2. CASE Then(c, <<>>)
    BY <1>7, <2>2
  <2>3. Then(c, IF statuses[Errors] = "notConfirmed" /\ statuses[Usage] # "notConfirmed" THEN a ELSE <<>>)
    BY <1>3, <1>11 DEF ConfirmErrors
  <2> QED
    BY <2>1, <2>2, <2>3
<1>12. CASE Confirm(c)
  <2> DEFINE Follow(use) == GetStatus(Errors) \o <<[do |-> "confirmErrors", enabled |-> use]>>
  <2>1. ASSUME NEW use \in BOOLEAN
        PROVE  /\ Follow(use) \in Seq(Segments) /\ DOMAIN Follow(use) = 1 .. 2
               /\ Follow(use)[1].do = "getStatus" /\ Follow(use)[2].do = "confirmErrors"
               /\ \A i \in DOMAIN Follow(use) : Follow(use)[i].do \in {"getStatus", "confirmErrors"}
    <3> DEFINE a == Follow(use)
    <3>1. a = <<[do |-> "getStatus", setting |-> Errors], [do |-> "confirmErrors", enabled |-> use]>>
      BY TupleOfTwo DEF GetStatus
    <3> HIDE DEF a
    <3>2. a \in Seq(Segments)
      BY <3>1 DEF Segments, Settings
    <3>3. DOMAIN a = 1 .. 2 /\ a[1].do = "getStatus" /\ a[2].do = "confirmErrors"
      BY <3>1
    <3> QED
      BY <3>2, <3>3 DEF a
  <2>2. \/ Then(c, Follow(statuses[Usage] = "enabled"))
        \/ /\ statuses[Usage] = "notConfirmed"
           /\ \E yes \in BOOLEAN : Then(c, SetStatus(Usage, yes) \o Do("tell") \o Follow(yes))
    BY <1>12 DEF Confirm
  <2>5. 1 \in DOMAIN todo[c] /\ todo[c][1].do = "confirm"
    BY <1>1, <1>12, SegmentRuns DEF Confirm
  <2>6. ~ Asked(Usage)
    BY <1>4, <2>5 DEF Asked, AsksFor
  <2> HIDE DEF Follow
  <2>3. ASSUME NEW use \in BOOLEAN, Then(c, Follow(use)) PROVE CallsStep /\ NothingBegins
    <3>1. \A i \in DOMAIN Follow(use) :
             ~ Tracks(Follow(use)[i]) /\ ~ TurnsOff(Follow(use)[i]) /\ Follow(use)[i].do \in {"getStatus", "confirmErrors"}
      BY <2>1 DEF Tracks, TurnsOff, Sending
    <3>2. \A i \in DOMAIN Follow(use) : Follow(use)[i].do \notin {"request", "start", "use", "load", "initDone", "save"}
      BY <2>1
    <3>3. AsksNoMore(Follow(use), todo[c][1])
      BY <2>1, <2>5 DEF AsksNoMore, NotAfter, Asks, AsksFor
    <3>4. \A i \in DOMAIN Follow(use) : \A j \in i + 1 .. Len(Follow(use)) : Follow(use)[j].do \notin NotAfter(Follow(use)[i])
      <4>1. NotAfter(Follow(use)[1]) = {} /\ Len(Follow(use)) = 2
        BY <2>1 DEF NotAfter, Asks
      <4> QED
        BY <2>1, <4>1
    <3> QED
      BY <1>8, <2>1, <2>3, <3>1, <3>2, <3>3, <3>4
  <2>4. ASSUME statuses[Usage] = "notConfirmed", NEW yes \in BOOLEAN,
               Then(c, SetStatus(Usage, yes) \o Do("tell") \o Follow(yes))
        PROVE  CallsStep /\ NothingBegins
    <3> DEFINE g == [do |-> "setStatus", setting |-> Usage, enabled |-> yes]
               h == [do |-> "tell"]
               r == Follow(yes)
    <3>1. /\ g \in Segments /\ g.do = "setStatus" /\ g.setting = Usage
          /\ h \in Segments /\ h.do = "tell"
      BY DEF Segments, Settings
    <3>2. SetStatus(Usage, yes) \o Do("tell") = <<g, h>>
      BY TupleOfTwo DEF SetStatus, Do
    <3>3. stored[Usage] # "enabled"
      BY <1>1, <2>4, <2>6 DEF StatusesFollowWishes, Settings
    <3>4. r \in Seq(Segments) /\ DOMAIN r = 1 .. 2 /\ Len(r) = 2 /\ r[1].do = "getStatus" /\ r[2].do = "confirmErrors"
      <4>1. r \in Seq(Segments) /\ DOMAIN r = 1 .. 2 /\ r[1].do = "getStatus" /\ r[2].do = "confirmErrors"
        BY <2>1
      <4> HIDE DEF r
      <4> QED
        BY <4>1
    <3> DEFINE p == <<g, h>>
               a == p \o r
    <3> HIDE DEF g, h, r
    <3>5. p \in Seq(Segments) /\ Len(p) = 2 /\ p[1] = g /\ p[2] = h
      BY <3>1
    <3> HIDE DEF p
    <3>6. /\ a \in Seq(Segments) /\ Len(a) = 4 /\ DOMAIN a = 1 .. 4
          /\ a[1] = g /\ a[2] = h /\ a[3] = r[1] /\ a[4] = r[2]
      <4>1. p \in Seq(Segments) /\ r \in Seq(Segments) /\ Len(p) = 2 /\ Len(r) = 2
        BY <3>4, <3>5
      <4>2. /\ a \in Seq(Segments) /\ Len(a) = Len(p) + Len(r)
            /\ \A i \in 1 .. Len(p) + Len(r) : a[i] = IF i <= Len(p) THEN p[i] ELSE r[i - Len(p)]
        BY ONLY <4>1, ConcatProperties
      <4> HIDE DEF a
      <4> QED
        BY <3>5, <4>1, <4>2
    <3>7. Then(c, a)
      BY <2>4, <3>2 DEF p, r
    <3> HIDE DEF a
    <3>8. \A i \in DOMAIN a : a[i].do \in {"setStatus", "tell", "getStatus", "confirmErrors"} /\ (a[i].do = "setStatus" => i = 1)
      BY <3>1, <3>4, <3>6
    <3>9. \A i \in DOMAIN a :
             /\ ~ Tracks(a[i]) /\ a[i].do \notin {"request", "start", "use", "load", "initDone", "save"}
             /\ TurnsOff(a[i]) => i = 1 /\ stored[a[i].setting] # "enabled"
      BY <3>1, <3>3, <3>6, <3>8 DEF Tracks, TurnsOff, Sending
    <3>10. /\ NotAfter(a[1]) = {"checkConsent", "confirm"} /\ NotAfter(a[2]) = {} /\ NotAfter(a[3]) = {} /\ NotAfter(a[4]) = Asks
      BY <3>1, <3>4, <3>6 DEF NotAfter, Asks, AsksFor
    <3>11. \A i \in DOMAIN a : \A j \in i + 1 .. Len(a) : a[j].do \notin NotAfter(a[i])
      <4> SUFFICES ASSUME NEW i \in DOMAIN a, NEW j \in i + 1 .. Len(a) PROVE a[j].do \notin NotAfter(a[i])
        OBVIOUS
      <4>1. i \in 1 .. 4 /\ j \in 2 .. 4 /\ i < j
        BY <3>6
      <4>2. a[j].do \in {"tell", "getStatus", "confirmErrors"}
        BY <3>1, <3>4, <3>6, <4>1
      <4>3. i \in 1 .. 3
        BY <4>1
      <4> QED
        BY <3>10, <4>2, <4>3
    <3>12. AsksNoMore(a, todo[c][1])
      <4>1. \A i \in DOMAIN a : NotAfter(a[i]) \subseteq NotAfter(todo[c][1])
        <5>1. NotAfter(todo[c][1]) = Asks /\ {"checkConsent", "confirm"} \subseteq Asks
          BY <2>5 DEF NotAfter, Asks
        <5>2. \A i \in 1 .. 4 : NotAfter(a[i]) \in {{}, {"checkConsent", "confirm"}, Asks}
          BY <3>10
        <5> QED
          BY <3>6, <5>1, <5>2
      <4>2. \A i \in DOMAIN a : \A s \in Settings : a[i].do \in AsksFor(s) => todo[c][1].do \in AsksFor(s)
        BY <2>5, <3>8 DEF AsksFor, Asks
      <4> QED
        BY <4>1, <4>2 DEF AsksNoMore
    <3> QED
      BY <1>8, <3>6, <3>7, <3>9, <3>11, <3>12
  <2> QED
    BY <2>2, <2>3, <2>4
<1>13. CASE TellAnswer(c)
  <2> DEFINE a == TrySend(FeatureKeys, Answer)
  <2>1. Then(c, a)
    BY <1>13 DEF TellAnswer
  <2>2. /\ a \in Seq(Segments)
        /\ \A i \in DOMAIN a : a[i].do = "endTry" \/ (a[i].do = "send" /\ a[i].item = Answer)
    <3>1. Answer \in Items
      BY DEF Answer, Items, Settings
    <3> QED
      BY <3>1, TrySendSegments
  <2> HIDE DEF a
  <2>3. \A i \in DOMAIN a :
           ~ Tracks(a[i]) /\ ~ TurnsOff(a[i]) /\ a[i].do \in {"endTry", "send"} /\ a[i].do \notin Asks \cup {"setStatus", "save"}
    BY <2>2 DEF Tracks, TurnsOff, Sending, Answer, Asks
  <2>4. AsksNoMore(a, todo[c][1]) /\ \A i \in DOMAIN a : NotAfter(a[i]) = {}
    BY <2>3, NothingAsked
  <2> QED
    BY <1>8, <2>1, <2>2, <2>3, <2>4
<1> QED
  BY <1>10, <1>11, <1>12, <1>13

\* The segments of a caller after a step are its old ones and those that are put before them.
LEMMA ThenSegments ==
    ASSUME AnalyticsShape, NEW c \in Callers, todo[c] # <<>>, NEW a \in Seq(Segments), Then(c, a)
    PROVE  \A d \in Callers : \A i \in DOMAIN todo'[d] :
              \/ \E j \in DOMAIN todo[d] : todo'[d][i] = todo[d][j]
              \/ d = c /\ \E j \in DOMAIN a : todo'[d][i] = a[j]
<1>1. todo \in [Callers -> Seq(Segments)] /\ todo' = [todo EXCEPT ![c] = a \o Tail(todo[c])]
  BY DEF AnalyticsShape, Then
<1>2. \A i \in DOMAIN (a \o Tail(todo[c])) :
            i \in 1 .. Len(a) \/ (i - Len(a) + 1 \in 2 .. Len(todo[c]) /\ (a \o Tail(todo[c]))[i] = todo[c][i - Len(a) + 1])
  BY <1>1, GoesOn
<1>3. \A i \in 1 .. Len(a) : (a \o Tail(todo[c]))[i] = a[i]
  BY <1>1, GoesOn
<1> SUFFICES ASSUME NEW d \in Callers, NEW i \in DOMAIN todo'[d]
             PROVE  \/ \E j \in DOMAIN todo[d] : todo'[d][i] = todo[d][j]
                    \/ d = c /\ \E j \in DOMAIN a : todo'[d][i] = a[j]
  OBVIOUS
<1>4. CASE d # c
  BY <1>1, <1>4
<1>5. CASE d = c
  <2>1. todo'[d] = a \o Tail(todo[c])
    BY <1>1, <1>5
  <2>2. CASE i \in 1 .. Len(a)
    <3>1. i \in DOMAIN a /\ todo'[d][i] = a[i]
      BY <1>3, <2>1, <2>2
    <3> QED
      BY <1>5, <3>1
  <2>3. CASE i \notin 1 .. Len(a)
    <3>1. i - Len(a) + 1 \in 2 .. Len(todo[c]) /\ todo'[d][i] = todo[c][i - Len(a) + 1]
      BY <1>2, <2>1, <2>3
    <3>2. i - Len(a) + 1 \in DOMAIN todo[d]
      BY <1>1, <1>5, <3>1
    <3> QED
      BY <1>5, <3>1, <3>2
  <2> QED
    BY <2>2, <2>3
<1> QED
  BY <1>4, <1>5

\* What the head of a call hands over is the answer or what was wanted.
LEMMA MayBeSent ==
    ASSUME AnalyticsShape, CallsInOrder, NEW c \in Callers, NEW kind \in Sending, Segment(c, kind)
    PROVE  /\ todo[c][1].item \in Items
           /\ todo[c][1].item.answer \/ todo[c][1].item.setting \in wished[c]
<1>1. InOrderAt(todo[c], 1, c, wished[c], Len(monitors), init, stored) /\ todo[c][1] \in Segments /\ todo[c][1].do = kind
  BY SegmentRuns
<1> QED
  BY <1>1, SegmentFields DEF InOrderAt, Tracks

\* A segment that sends, or is about to, ends with others that send.
LEMMA SendingContinues ==
    ASSUME AnalyticsShape, CallsInOrder, OneInitializes, NEW c \in Callers, todo[c] # <<>>,
           todo[c][1].do \notin Initializing, NEW a \in Seq(Segments), Then(c, a),
           \A i \in DOMAIN a :
              /\ a[i].do \in Sending \/ (a[i].do = "endTry" /\ i = Len(a))
              /\ a[i].do \in Sending => a[i].item.answer \/ a[i].item.setting \in wished[c]
              /\ a[i].do \in {"request", "start"} => i = 1 /\ Len(a) = 1
              /\ a[i].do \in {"start", "use"} => a[i].monitor \in 1 .. Len(monitors'),
           todo[c][1].do \notin Sending
              \/ ((todo[c][1].do = "request" \/ \A i \in DOMAIN a : a[i].do \in Sending) /\ \A i \in DOMAIN a : a[i].do # "request"),
           Len(monitors') \in Nat, Len(monitors) <= Len(monitors'),
           UNCHANGED <<wished, statuses, stored, init>>
    PROVE  CallsStep /\ NoneAdded("load") /\ ((\A i \in DOMAIN a : a[i].do # "start") => NoneAdded("start"))
<1>1. InOrder(a, c, wished[c], Len(monitors'), init, stored)
  BY SendingInOrder
<1>2. \A i \in DOMAIN a : a[i].do \notin {"initDone", "load"} /\ a[i].do \notin Asks \cup {"setStatus", "save"}
  BY DEF Sending, Asks
<1>3. AsksNoMore(a, todo[c][1])
  BY <1>2, NothingAsked
<1> QED
  BY <1>1, <1>2, <1>3, CallContinues

LEMMA TrackKeepsCalls ==
    ASSUME AnalyticsInv, NEW c \in Callers, TrackItem(c)
    PROVE  CallsStep /\ NothingBegins
<1>1. AnalyticsShape /\ CallsInOrder /\ OneInitializes /\ StatusesFollowWishes
  BY DEF AnalyticsInv
<1>2. /\ todo[c] # <<>> /\ todo[c][1].do = "track" /\ Head(todo[c]) = todo[c][1] /\ todo[c][1].item \in Items
      /\ todo[c][1].do \notin Initializing \cup Sending
  BY <1>1, SegmentRuns, SegmentFields DEF TrackItem, Initializing, Sending
<1>3. UNCHANGED <<wished, statuses, stored, init, monitors>> /\ Len(monitors) \in Nat
  BY <1>1 DEF TrackItem, SendUnchanged, AnalyticsShape
<1> DEFINE item == todo[c][1].item
           a == <<[do |-> "request", item |-> item]>>
<1>4. CASE Then(c, a) /\ statuses[item.setting] = "enabled"
  <2>1. item.setting \in wished[c]
    BY <1>1, <1>2, <1>4 DEF StatusesFollowWishes, Items
  <2>2. a \in Seq(Segments) /\ DOMAIN a = {1} /\ Len(a) = 1 /\ a[1].do = "request" /\ a[1].item = item
    <3> HIDE DEF item
    <3>1. [do |-> "request", item |-> item] \in Segments
      BY <1>2 DEF Segments, item
    <3> QED
      BY <3>1
  <2> HIDE DEF a
  <2>3. CallsStep /\ NoneAdded("load") /\ ((\A i \in DOMAIN a : a[i].do # "start") => NoneAdded("start"))
    BY <1>1, <1>2, <1>3, <1>4, <2>1, <2>2, SendingContinues DEF Sending
  <2> QED
    BY <2>2, <2>3 DEF NothingBegins
<1>5. CASE Then(c, <<>>)
  BY <1>1, <1>2, <1>3, <1>5, CallDrops
<1>6. Then(c, IF statuses[item.setting] = "enabled" THEN a ELSE <<>>)
  BY <1>2 DEF TrackItem
<1> QED
  BY <1>4, <1>5, <1>6

LEMMA RequestKeepsCalls ==
    ASSUME AnalyticsInv, NEW c \in Callers, Request(c)
    PROVE  CallsStep /\ NothingBegins
<1>1. AnalyticsShape /\ CallsInOrder /\ OneInitializes
  BY DEF AnalyticsInv
<1>2. /\ todo[c] # <<>> /\ todo[c][1].do = "request" /\ Head(todo[c]) = todo[c][1] /\ todo[c][1].item \in Items
      /\ todo[c][1].item.answer \/ todo[c][1].item.setting \in wished[c]
      /\ todo[c][1].do \notin Initializing
  BY <1>1, SegmentRuns, MayBeSent DEF Request, Initializing, Sending
<1>3. UNCHANGED <<wished, statuses, stored, init, monitors>> /\ Len(monitors) \in Nat
  BY <1>1 DEF Request, SendUnchanged, AnalyticsShape
<1> DEFINE item == todo[c][1].item
           keys == IF item.setting = Usage THEN FeatureKeys ELSE ExceptionKeys
           a == TrySend(keys, item)
<1>4. CASE Then(c, a)
  <2>1. /\ a \in Seq(Segments)
        /\ \A i \in DOMAIN a : (a[i].do = "send" /\ a[i].item = item) \/ (a[i].do = "endTry" /\ i = Len(a))
    <3>1. keys \in {FeatureKeys, ExceptionKeys}
      OBVIOUS
    <3> HIDE DEF keys
    <3> QED
      BY <1>2, <3>1, TrySendSegments
  <2> HIDE DEF a
  <2>2. \A i \in DOMAIN a :
              /\ a[i].do \in Sending \/ (a[i].do = "endTry" /\ i = Len(a))
              /\ a[i].do \in Sending => a[i].item.answer \/ a[i].item.setting \in wished[c]
              /\ a[i].do \notin {"request", "start", "use"}
    BY <1>2, <2>1 DEF Sending
  <2>3. CallsStep /\ NoneAdded("load") /\ ((\A i \in DOMAIN a : a[i].do # "start") => NoneAdded("start"))
    BY <1>1, <1>2, <1>3, <1>4, <2>1, <2>2, SendingContinues
  <2> QED
    BY <2>2, <2>3 DEF NothingBegins
<1>5. CASE Then(c, <<>>)
  BY <1>1, <1>2, <1>3, <1>5, CallDrops
<1>6. \E can \in BOOLEAN : Then(c, IF can THEN a ELSE <<>>)
  BY <1>2 DEF Request
<1> QED
  BY <1>4, <1>5, <1>6

\* The use of a monitor is one segment.
LEMMA UseSegment ==
    ASSUME NEW m \in Nat, NEW item \in Items
    PROVE  /\ Use(m, item) \in Seq(Segments) /\ DOMAIN Use(m, item) = {1} /\ Len(Use(m, item)) = 1
           /\ Use(m, item)[1].do = "use" /\ Use(m, item)[1].item = item /\ Use(m, item)[1].monitor = m
<1>1. [do |-> "use", monitor |-> m, item |-> item] \in Segments
  BY DEF Segments
<1> QED
  BY <1>1 DEF Use

LEMMA StartForKeyKeepsCalls ==
    ASSUME AnalyticsInv, NEW c \in Callers, StartForKey(c)
    PROVE  CallsStep /\ NothingBegins
<1>1. AnalyticsShape /\ CallsInOrder /\ OneInitializes
  BY DEF AnalyticsInv
<1>2. /\ todo[c] # <<>> /\ todo[c][1].do = "send" /\ Head(todo[c]) = todo[c][1] /\ todo[c][1].item \in Items
      /\ todo[c][1].item.answer \/ todo[c][1].item.setting \in wished[c]
      /\ todo[c][1].do \notin Initializing /\ todo[c][1].key \in Keys
  BY <1>1, SegmentRuns, SegmentFields, MayBeSent DEF StartForKey, Initializing, Sending
<1>3. UNCHANGED <<wished, statuses, stored, init, monitors>> /\ Len(monitors) \in Nat
  BY <1>1 DEF StartForKey, SendUnchanged, AnalyticsShape
<1> DEFINE item == todo[c][1].item
           key == todo[c][1].key
           a == IF current[key] # 0 THEN Use(current[key], item) ELSE <<[do |-> "create", key |-> key, item |-> item]>>
<1>4. Then(c, a)
  BY <1>2 DEF StartForKey
<1>5. /\ a \in Seq(Segments) /\ DOMAIN a = {1} /\ Len(a) = 1 /\ a[1].item = item
      /\ a[1].do = "create" \/ (a[1].do = "use" /\ a[1].monitor \in 1 .. Len(monitors))
  <2>1. current[key] \in 0 .. Len(monitors)
    BY <1>1, <1>2 DEF AnalyticsShape
  <2> HIDE DEF item, key
  <2>2. CASE current[key] # 0
    <3>1. current[key] \in 1 .. Len(monitors) /\ a = Use(current[key], item) /\ current[key] \in Nat
      BY <1>3, <2>1, <2>2
    <3> HIDE DEF a
    <3> QED
      BY <1>2, <3>1, UseSegment DEF item
  <2>3. CASE current[key] = 0
    <3>1. a = <<[do |-> "create", key |-> key, item |-> item]>>
      BY <2>3
    <3> HIDE DEF a
    <3>2. [do |-> "create", key |-> key, item |-> item] \in Segments
      BY <1>2 DEF Segments, key, item
    <3> QED
      BY <3>1, <3>2
  <2> QED
    BY <2>2, <2>3
<1> HIDE DEF a
<1>6. \A i \in DOMAIN a :
              /\ a[i].do \in Sending /\ a[i].do \notin {"request", "start"}
              /\ a[i].item.answer \/ a[i].item.setting \in wished[c]
              /\ a[i].do = "use" => a[i].monitor \in 1 .. Len(monitors')
  BY <1>2, <1>3, <1>5 DEF Sending
<1>7. CallsStep /\ NoneAdded("load") /\ ((\A i \in DOMAIN a : a[i].do # "start") => NoneAdded("start"))
  BY <1>1, <1>2, <1>3, <1>4, <1>5, <1>6, SendingContinues
<1> QED
  BY <1>6, <1>7 DEF NothingBegins

\* startEqatecMonitor: what begins is the session of the monitor that is created.
LEMMA StartMonitorKeepsCalls ==
    ASSUME AnalyticsInv, NEW c \in Callers, StartEqatecMonitor(c)
    PROVE  /\ CallsStep /\ NoneAdded("load")
           /\ \/ monitors' = monitors /\ current' = current /\ NothingBegins
              \/ /\ todo[c][1].key \in Keys /\ current[todo[c][1].key] = 0
                 /\ monitors' = Append(monitors, [key |-> todo[c][1].key, state |-> "created", kept |-> TRUE])
                 /\ current' = [current EXCEPT ![todo[c][1].key] = Len(monitors) + 1]
                 /\ \A d \in Callers : \A i \in DOMAIN todo'[d] : todo'[d][i].do = "start" =>
                       \/ \E j \in DOMAIN todo[d] : todo'[d][i] = todo[d][j]
                       \/ d = c /\ todo'[d][i].monitor = Len(monitors) + 1
<1>1. AnalyticsShape /\ CallsInOrder /\ OneInitializes
  BY DEF AnalyticsInv
<1>2. /\ todo[c] # <<>> /\ todo[c][1].do = "create" /\ Head(todo[c]) = todo[c][1] /\ todo[c][1].item \in Items
      /\ todo[c][1].item.answer \/ todo[c][1].item.setting \in wished[c]
      /\ todo[c][1].do \notin Initializing /\ todo[c][1].key \in Keys
  BY <1>1, SegmentRuns, SegmentFields, MayBeSent DEF StartEqatecMonitor, Initializing, Sending
<1>3. UNCHANGED <<wished, statuses, stored>> /\ Len(monitors) \in Nat
  BY <1>1 DEF StartEqatecMonitor, SendUnchanged, AnalyticsShape
<1> DEFINE item == todo[c][1].item
           key == todo[c][1].key
           more == Append(monitors, [key |-> key, state |-> "created", kept |-> TRUE])
           a == <<[do |-> "start", monitor |-> Len(monitors) + 1, item |-> item]>>
<1>4. CASE current[key] # 0 /\ Then(c, Use(current[key], item)) /\ UNCHANGED <<init, monitors, current>>
  <2> DEFINE b == Use(current[key], item)
  <2>1. current[key] \in 0 .. Len(monitors)
    BY <1>1, <1>2 DEF AnalyticsShape
  <2>2. current[key] \in 1 .. Len(monitors) /\ current[key] \in Nat
    BY <1>3, <1>4, <2>1
  <2>3. /\ b \in Seq(Segments) /\ DOMAIN b = {1} /\ Len(b) = 1
        /\ b[1].do = "use" /\ b[1].item = item /\ b[1].monitor = current[key]
    BY <1>2, <2>2, UseSegment
  <2> HIDE DEF b
  <2>4. \A i \in DOMAIN b :
              /\ b[i].do \in Sending /\ b[i].do \notin {"request", "start"}
              /\ b[i].item.answer \/ b[i].item.setting \in wished[c]
              /\ b[i].monitor \in 1 .. Len(monitors')
    BY <1>2, <1>4, <2>2, <2>3 DEF Sending
  <2>5. CallsStep /\ NoneAdded("load") /\ ((\A i \in DOMAIN b : b[i].do # "start") => NoneAdded("start"))
    <3>1. /\ Then(c, b) /\ UNCHANGED <<wished, statuses, stored, init>>
          /\ Len(monitors') \in Nat /\ Len(monitors) <= Len(monitors')
      BY <1>3, <1>4 DEF b
    <3>2. /\ \A i \in DOMAIN b : b[i].do \in Sending
          /\ \A i \in DOMAIN b : b[i].do # "request"
      BY <2>4
    <3> QED
      BY <1>1, <1>2, <2>3, <2>4, <3>1, <3>2, SendingContinues
  <2> QED
    BY <1>4, <2>4, <2>5 DEF NothingBegins
<1>5. CASE /\ current[key] = 0 /\ monitors' = more /\ current' = [current EXCEPT ![key] = Len(monitors) + 1]
           /\ Then(c, a) /\ init' = init
  <2>1. Len(monitors') = Len(monitors) + 1
    <3>1. monitors \in Seq(Monitors)
      BY <1>1 DEF AnalyticsShape
    <3> QED
      BY <1>5, <3>1
  <2>2. a \in Seq(Segments) /\ DOMAIN a = {1} /\ Len(a) = 1 /\ a[1].do = "start" /\ a[1].item = item /\ a[1].monitor = Len(monitors) + 1
    <3> DEFINE m == Len(monitors) + 1
    <3>1. m \in Nat
      BY <1>3
    <3> HIDE DEF m, item
    <3>2. [do |-> "start", monitor |-> m, item |-> item] \in Segments
      BY <1>2, <3>1 DEF Segments, item
    <3> QED
      BY <3>2 DEF m
  <2> HIDE DEF a
  <2>3. \A i \in DOMAIN a :
              /\ a[i].do \in Sending /\ a[i].do # "request" /\ i = 1
              /\ a[i].item.answer \/ a[i].item.setting \in wished[c]
              /\ a[i].monitor \in 1 .. Len(monitors')
    BY <1>2, <1>3, <2>1, <2>2 DEF Sending
  <2>4. Len(monitors') \in Nat /\ Len(monitors) <= Len(monitors')
    BY <1>3, <2>1
  <2>5. CallsStep /\ NoneAdded("load")
    BY <1>1, <1>2, <1>3, <1>5, <2>2, <2>3, <2>4, SendingContinues
  <2>6. \A d \in Callers : \A i \in DOMAIN todo'[d] :
              \/ \E j \in DOMAIN todo[d] : todo'[d][i] = todo[d][j]
              \/ d = c /\ \E j \in DOMAIN a : todo'[d][i] = a[j]
    BY <1>1, <1>2, <1>5, <2>2, ThenSegments
  <2> QED
    BY <1>2, <1>5, <2>2, <2>5, <2>6
<1>6. CASE Reject(c) /\ UNCHANGED <<monitors, current>>
  BY <1>1, <1>3, <1>6, RejectKeeps DEF CallsStep, NothingBegins
<1> QED
  BY <1>2, <1>4, <1>5, <1>6 DEF StartEqatecMonitor

LEMMA SessionKeepsCalls ==
    ASSUME AnalyticsInv, NEW c \in Callers, StartSession(c)
    PROVE  /\ CallsStep /\ NothingBegins
           /\ todo[c][1].do = "start" /\ 1 \in DOMAIN todo[c] /\ todo[c][1].monitor \in 1 .. Len(monitors)
           /\ \A i \in DOMAIN todo'[c] : todo'[c][i].do # "start"
<1>1. AnalyticsShape /\ CallsInOrder /\ OneInitializes
  BY DEF AnalyticsInv
<1>2. /\ todo[c] # <<>> /\ todo[c][1].do = "start" /\ Head(todo[c]) = todo[c][1] /\ todo[c][1].item \in Items /\ 1 \in DOMAIN todo[c]
      /\ todo[c][1].item.answer \/ todo[c][1].item.setting \in wished[c]
      /\ todo[c][1].do \notin Initializing /\ todo[c] \in Seq(Segments)
      /\ InOrder(todo[c], c, wished[c], Len(monitors), init, stored)
  BY <1>1, SegmentRuns, MayBeSent DEF StartSession, Initializing, Sending
<1>3. UNCHANGED <<wished, statuses, stored>> /\ Len(monitors) \in Nat
  BY <1>1 DEF StartSession, SendUnchanged, AnalyticsShape
<1> DEFINE item == todo[c][1].item
           m == todo[c][1].monitor
           key == monitors[m].key
           version == NodeVersion(item)
           a == Send(key, version) \o Use(m, item)
<1>4. m \in 1 .. Len(monitors)
  BY <1>2 DEF InOrder, InOrderAt
<1>5. CASE Then(c, a) /\ monitors' = [monitors EXCEPT ![m].state = "running"] /\ init' = init
  <2>1. monitors[m] \in Monitors /\ Len(monitors') = Len(monitors)
    <3>1. monitors \in Seq(Monitors)
      BY <1>1 DEF AnalyticsShape
    <3> HIDE DEF m
    <3> QED
      BY <1>4, <1>5, <3>1
  <2>2. key \in Keys
    BY <2>1 DEF Monitors
  <2>10. version \in Items /\ version.answer = item.answer /\ version.setting = item.setting
    BY <1>2 DEF NodeVersion, Items
  <2>3. /\ Send(key, version) \in Seq(Segments) /\ DOMAIN Send(key, version) = {1} /\ Len(Send(key, version)) = 1
        /\ Send(key, version)[1].do = "send" /\ Send(key, version)[1].item = version
    <3> HIDE DEF key, version
    <3>1. [do |-> "send", key |-> key, item |-> version] \in Segments
      BY <2>2, <2>10 DEF Segments
    <3> QED
      BY <3>1 DEF Send
  <2>4. /\ Use(m, item) \in Seq(Segments) /\ DOMAIN Use(m, item) = {1} /\ Len(Use(m, item)) = 1
        /\ Use(m, item)[1].do = "use" /\ Use(m, item)[1].item = item /\ Use(m, item)[1].monitor = m
    <3>1. m \in Nat
      BY <1>3, <1>4
    <3> QED
      BY <1>2, <3>1, UseSegment
  <2> DEFINE p == Send(key, version)
             q == Use(m, item)
  <2> HIDE DEF p, q
  <2>5. p \in Seq(Segments) /\ q \in Seq(Segments) /\ DOMAIN p = {1} /\ DOMAIN q = {1} /\ a = p \o q
    BY <2>3, <2>4 DEF p, q
  <2> HIDE DEF a
  <2>6. a \in Seq(Segments) /\ \A i \in DOMAIN a : a[i] = p[1] \/ a[i] = q[1]
    BY <2>5, SegmentsJoin
  <2>7. \A i \in DOMAIN a :
              /\ a[i].do \in Sending /\ a[i].do \notin {"request", "start"}
              /\ a[i].item.answer \/ a[i].item.setting \in wished[c]
              /\ a[i].do = "use" => a[i].monitor \in 1 .. Len(monitors')
    <3> HIDE DEF version
    <3>1. p[1].do = "send" /\ (p[1].item.answer \/ p[1].item.setting \in wished[c])
      BY <1>2, <2>3, <2>10 DEF p
    <3>2. q[1].do = "use" /\ q[1].monitor \in 1 .. Len(monitors') /\ (q[1].item.answer \/ q[1].item.setting \in wished[c])
      BY <1>2, <1>4, <2>1, <2>4 DEF q
    <3> QED
      BY <2>6, <3>1, <3>2 DEF Sending
  <2>8. CallsStep /\ NoneAdded("load") /\ ((\A i \in DOMAIN a : a[i].do # "start") => NoneAdded("start"))
    <3>1. /\ Then(c, a) /\ UNCHANGED <<wished, statuses, stored, init>>
          /\ Len(monitors') \in Nat /\ Len(monitors) <= Len(monitors')
      BY <1>3, <1>5, <2>1
    <3>2. /\ \A i \in DOMAIN a : a[i].do \in Sending
          /\ \A i \in DOMAIN a : a[i].do # "request"
      BY <2>7
    <3>3. \A i \in DOMAIN a :
              /\ a[i].do \in Sending \/ (a[i].do = "endTry" /\ i = Len(a))
              /\ a[i].do \in Sending => a[i].item.answer \/ a[i].item.setting \in wished[c]
              /\ a[i].do \in {"request", "start"} => i = 1 /\ Len(a) = 1
              /\ a[i].do \in {"start", "use"} => a[i].monitor \in 1 .. Len(monitors')
      BY <2>7
    <3> QED
      BY <1>1, <1>2, <2>6, <3>1, <3>2, <3>3, SendingContinues
  <2>9. ASSUME NEW i \in DOMAIN todo'[c] PROVE todo'[c][i].do # "start"
    <3>1. todo' = [todo EXCEPT ![c] = a \o Tail(todo[c])] /\ todo \in [Callers -> Seq(Segments)]
      BY <1>1, <1>5 DEF Then, AnalyticsShape
    <3>2. todo'[c] = a \o Tail(todo[c])
      BY <3>1
    <3>3. \/ i \in 1 .. Len(a)
          \/ i - Len(a) + 1 \in 2 .. Len(todo[c]) /\ todo'[c][i] = todo[c][i - Len(a) + 1]
      BY <1>2, <2>6, <2>9, <3>2, GoesOn
    <3>4. CASE i \in 1 .. Len(a)
      <4>1. todo'[c][i] = a[i] /\ i \in DOMAIN a
        BY <1>2, <2>6, <3>2, <3>4, GoesOn
      <4> QED
        BY <2>7, <4>1
    <3>5. ASSUME NEW j \in 2 .. Len(todo[c]) PROVE todo[c][j].do # "start"
      BY <1>2, RestInOrder
    <3> QED
      BY <3>3, <3>4, <3>5
  <2> QED
    BY <1>2, <1>4, <2>7, <2>8, <2>9 DEF NothingBegins
<1>6. CASE Reject(c) /\ UNCHANGED monitors
  <2>1. CallsStep /\ NothingBegins
    BY <1>1, <1>3, <1>6, RejectKeeps DEF CallsStep, NothingBegins
  <2>2. \A i \in DOMAIN AfterReject(c) : AfterReject(c)[i].do # "start"
    BY <1>1, AfterRejectInOrder
  <2>3. todo'[c] = AfterReject(c)
    BY <1>1, <1>6 DEF Reject, AnalyticsShape
  <2> QED
    BY <1>2, <1>4, <2>1, <2>2, <2>3
<1> QED
  BY <1>2, <1>5, <1>6 DEF StartSession

\* The segments that do nothing more than to end, or to throw.
LEMMA EndsKeepCalls ==
    ASSUME AnalyticsInv, NEW c \in Callers, UseMonitor(c) \/ EndTry(c) \/ Body(c)
    PROVE  CallsStep /\ NothingBegins
<1>1. AnalyticsShape /\ CallsInOrder /\ OneInitializes
  BY DEF AnalyticsInv
<1>2. PICK kind \in {"use", "endTry", "body"} : Segment(c, kind)
  BY DEF UseMonitor, EndTry, Body
<1>3. todo[c] # <<>> /\ todo[c][1].do \notin Initializing
  BY <1>1, <1>2, SegmentRuns DEF Initializing
<1>4. UNCHANGED <<wished, statuses, stored, monitors>>
  BY DEF UseMonitor, EndTry, Body, SendUnchanged
<1>5. CASE Then(c, <<>>) /\ init' = init
  BY <1>1, <1>3, <1>4, <1>5, CallDrops
<1>6. CASE Reject(c)
  BY <1>1, <1>4, <1>6, RejectKeeps DEF CallsStep, NothingBegins
<1> QED
  BY <1>5, <1>6 DEF UseMonitor, EndTry, Body

\* tryStopEqatecMonitors keeps every monitor, and has none left for any key.
LEMMA StopKeepsShape ==
    ASSUME AnalyticsShape, TryStopEqatecMonitors
    PROVE  /\ monitors' \in Seq(Monitors) /\ Len(monitors') = Len(monitors) /\ DOMAIN monitors' = DOMAIN monitors
           /\ current' = [k \in Keys |-> 0] /\ current' \in [Keys -> 0 .. Len(monitors')]
           /\ \A m \in DOMAIN monitors :
                 /\ monitors'[m].key = monitors[m].key
                 /\ IF current[monitors[m].key] = m
                    THEN monitors'[m].state = "stopped" /\ monitors'[m].kept = (monitors[m].kept /\ monitors[m].state = "running")
                    ELSE monitors'[m] = monitors[m]
<1> DEFINE n == [m \in DOMAIN monitors |->
                    IF current[monitors[m].key] = m
                    THEN [monitors[m] EXCEPT !.state = "stopped", !.kept = @ /\ monitors[m].state = "running"]
                    ELSE monitors[m]]
<1>1. monitors \in Seq(Monitors) /\ DOMAIN monitors = 1 .. Len(monitors) /\ Len(monitors) \in Nat
  BY DEF AnalyticsShape
<1>2. monitors' = n /\ current' = [k \in Keys |-> 0]
  BY DEF TryStopEqatecMonitors
<1>3. ASSUME NEW m \in DOMAIN monitors
      PROVE  /\ n[m] \in Monitors /\ n[m].key = monitors[m].key
             /\ IF current[monitors[m].key] = m
                THEN n[m].state = "stopped" /\ n[m].kept = (monitors[m].kept /\ monitors[m].state = "running")
                ELSE n[m] = monitors[m]
  <2>1. monitors[m] \in Monitors
    BY <1>1
  <2> QED
    BY <2>1 DEF Monitors
<1> HIDE DEF n
<1>4. n \in [1 .. Len(monitors) -> Monitors] /\ DOMAIN n = DOMAIN monitors
  <2>1. n = [m \in DOMAIN monitors |-> n[m]]
    BY DEF n
  <2> QED
    BY <1>1, <1>3, <2>1
<1>5. n \in Seq(Monitors) /\ Len(n) = Len(monitors)
  BY <1>1, <1>4
<1>6. current' \in [Keys -> 0 .. Len(monitors')]
  BY <1>1, <1>2, <1>5
<1> QED
  BY <1>2, <1>3, <1>4, <1>5, <1>6

LEMMA BeginSetStatusKeepsCalls ==
    ASSUME AnalyticsInv, NEW c \in Callers, BeginSetStatus(c)
    PROVE  CallsStep /\ NothingBegins
<1>1. AnalyticsShape /\ CallsInOrder /\ OneInitializes
  BY DEF AnalyticsInv
<1>2. /\ todo[c] # <<>> /\ todo[c][1].do = "setStatus" /\ Head(todo[c]) = todo[c][1]
      /\ todo[c][1].setting \in Settings /\ todo[c][1].enabled \in BOOLEAN
      /\ todo[c][1].do \notin Initializing /\ todo[c][1].do \notin Sending
  BY <1>1, SegmentRuns, SegmentFields DEF BeginSetStatus, Initializing, Sending
<1> DEFINE s == todo[c][1].setting
           on == todo[c][1].enabled
           a == <<[do |-> "save", setting |-> s, enabled |-> on]>>
<1>3. /\ statuses' = [statuses EXCEPT ![s] = IF on THEN "enabled" ELSE "disabled"]
      /\ wished' = [d \in Callers |-> IF on THEN wished[d] \cup {s} ELSE IF d = c THEN wished[d] \ {s} ELSE wished[d]]
      /\ Then(c, a) /\ UNCHANGED <<monitors, stored, init>>
  BY <1>2 DEF BeginSetStatus, StatusUnchanged
<1>4. a \in Seq(Segments) /\ DOMAIN a = {1} /\ Len(a) = 1 /\ a[1].do = "save" /\ a[1].setting = s /\ a[1].enabled = on
  <2> HIDE DEF s, on
  <2>1. [do |-> "save", setting |-> s, enabled |-> on] \in Segments
    BY <1>2 DEF Segments, s, on
  <2> QED
    BY <2>1
<1>5. /\ on => s \in wished'[c]
      /\ \A d \in Callers \ {c} : wished[d] \subseteq wished'[d]
      /\ Len(monitors') \in Nat /\ Len(monitors) <= Len(monitors')
  BY <1>1, <1>2, <1>3 DEF AnalyticsShape
<1>6. c = "command"
  BY <1>1, <1>2, SegmentRuns DEF BeginSetStatus, InOrderAt, OnlyCommand
<1> HIDE DEF a
<1>7. \A i \in DOMAIN a :
         /\ ~ Tracks(a[i]) /\ a[i].do \notin {"request", "start", "use", "load", "initDone"}
         /\ a[i].do = "save" => i = 1 /\ (a[i].enabled => a[i].setting \in wished'[c])
         /\ ~ TurnsOff(a[i])
         /\ \A j \in i + 1 .. Len(a) : FALSE
  BY <1>4, <1>5 DEF Tracks, TurnsOff, Sending
<1>10. AsksNoMore(a, todo[c][1])
  BY <1>2, <1>4 DEF AsksNoMore, NotAfter, Asks, AsksFor
<1>8. InOrder(a, c, wished'[c], Len(monitors'), init', stored')
  BY <1>4, <1>6, <1>7, QuietInOrder
<1>9. CallsStep /\ \A kind \in {"start", "load"} : (\A i \in DOMAIN a : a[i].do # kind) => NoneAdded(kind)
  BY <1>1, <1>2, <1>3, <1>4, <1>5, <1>7, <1>8, <1>10, CallGoesOn DEF CallsStep
<1> QED
  BY <1>7, <1>9 DEF NothingBegins

LEMMA SaveKeepsCalls ==
    ASSUME AnalyticsInv, NEW c \in Callers, Save(c)
    PROVE  CallsStep /\ NothingBegins
<1>1. AnalyticsShape /\ CallsInOrder /\ OneInitializes
  BY DEF AnalyticsInv
<1>2. todo[c] # <<>> /\ todo[c][1].do = "save"
  BY <1>1, SegmentRuns DEF Save
<1>3. c = "command" /\ todo[c][1].do \notin Initializing
  BY <1>1, <1>2, SegmentRuns DEF Save, InOrderAt, OnlyCommand, Initializing
<1>4. UNCHANGED <<wished, statuses>>
  BY DEF Save
<1>5. CASE Then(c, <<>>) /\ init' = init /\ (TryStopEqatecMonitors \/ UNCHANGED <<monitors, current>>)
  <2>1. Len(monitors') = Len(monitors)
    BY <1>1, <1>5, StopKeepsShape
  <2> QED
    BY <1>1, <1>2, <1>3, <1>4, <1>5, <2>1, CallDrops
<1>6. CASE Reject(c) /\ UNCHANGED <<stored, monitors, current>>
  BY <1>1, <1>4, <1>6, RejectKeeps DEF CallsStep, NothingBegins
<1> QED
  BY <1>5, <1>6 DEF Save

\* A call that reads a status.
LEMMA CallReads ==
    ASSUME AnalyticsShape, CallsInOrder, OneInitializes, NEW c \in Callers, todo[c] # <<>>,
           todo[c][1].do \in {"getStatus", "load"},
           NEW a \in Seq(Segments), Len(a) \in {0, 1}, \A i \in DOMAIN a : a[i].do = "load", Then(c, a),
           UNCHANGED <<wished, stored, monitors, init>>
    PROVE  CallsStep /\ NoneAdded("start") /\ ((\A i \in DOMAIN a : a[i].do # "load") => NoneAdded("load"))
<1> DEFINE t == todo[c]
           wanted == wished[c]
           count == Len(monitors)
<1>1. InOrder(t, c, wanted, count, init, stored) /\ count \in Nat /\ t # <<>> /\ t[1].do \in {"getStatus", "load"}
  BY DEF CallsInOrder, AnalyticsShape
<1>2. InOrder(a \o Tail(t), c, wanted, count, init, stored)
  <2> HIDE DEF t, wanted, count
  <2> QED
    BY <1>1, ReadsInOrder
<1>3. /\ InOrder(a \o Tail(todo[c]), c, wished'[c], Len(monitors'), init', stored')
      /\ \A d \in Callers \ {c} : wished[d] \subseteq wished'[d]
      /\ Len(monitors') \in Nat /\ Len(monitors) <= Len(monitors')
  BY <1>1, <1>2
<1>6. AsksNoMore(a, todo[c][1])
  BY NothingAsked DEF Asks
<1>4. /\ todo' \in [Callers -> Seq(Segments)] /\ CallsInOrder' /\ AskedRemain
      /\ \A kind \in {"start", "load", "initDone"} : (\A i \in DOMAIN a : a[i].do # kind) => NoneAdded(kind)
  BY <1>3, <1>6, ThenKeeps
<1>5. NoneAdded("start") /\ NoneAdded("initDone")
  BY <1>4
<1> QED
  BY <1>4, <1>5, OneStillInitializes DEF CallsStep

LEMMA GetStatusKeepsCalls ==
    ASSUME AnalyticsInv, NEW c \in Callers, GetStatusOf(c)
    PROVE  /\ CallsStep /\ NoneAdded("start")
           /\ \A d \in Callers : \A i \in DOMAIN todo'[d] : todo'[d][i].do = "load" =>
                 \/ \E j \in DOMAIN todo[d] : todo'[d][i] = todo[d][j]
                 \/ statuses[todo'[d][i].setting] = "unloaded"
<1>1. AnalyticsShape /\ CallsInOrder /\ OneInitializes
  BY DEF AnalyticsInv
<1>2. /\ todo[c] # <<>> /\ todo[c][1].do = "getStatus" /\ Head(todo[c]) = todo[c][1] /\ todo[c][1].setting \in Settings
  BY <1>1, SegmentRuns, SegmentFields DEF GetStatusOf
<1> DEFINE s == todo[c][1].setting
           a == IF statuses[s] = "unloaded" THEN <<[do |-> "load", setting |-> s]>> ELSE <<>>
<1>3. Then(c, a) /\ UNCHANGED <<wished, statuses, stored, monitors, init>>
  BY <1>2 DEF GetStatusOf, StatusUnchanged
<1>4. /\ a \in Seq(Segments) /\ Len(a) \in {0, 1}
      /\ \A i \in DOMAIN a : a[i].do = "load" /\ statuses[a[i].setting] = "unloaded"
  <2> HIDE DEF s
  <2>1. [do |-> "load", setting |-> s] \in Segments
    BY <1>2 DEF Segments, s
  <2>2. CASE statuses[s] = "unloaded"
    <3>1. a = <<[do |-> "load", setting |-> s]>>
      BY <2>2
    <3> HIDE DEF a
    <3> QED
      BY <2>1, <2>2, <3>1
  <2>3. CASE statuses[s] # "unloaded"
    <3>1. a = <<>>
      BY <2>3
    <3> HIDE DEF a
    <3> QED
      BY <3>1
  <2> QED
    BY <2>2, <2>3
<1> HIDE DEF a
<1>5. CallsStep /\ NoneAdded("start")
  BY <1>1, <1>2, <1>3, <1>4, CallReads
<1>6. \A d \in Callers : \A i \in DOMAIN todo'[d] :
              \/ \E j \in DOMAIN todo[d] : todo'[d][i] = todo[d][j]
              \/ d = c /\ \E j \in DOMAIN a : todo'[d][i] = a[j]
  BY <1>1, <1>2, <1>3, <1>4, ThenSegments
<1> QED
  BY <1>4, <1>5, <1>6

LEMMA LoadKeepsCalls ==
    ASSUME AnalyticsInv, NEW c \in Callers, Load(c)
    PROVE  CallsStep /\ NothingBegins
<1>1. AnalyticsShape /\ CallsInOrder /\ OneInitializes
  BY DEF AnalyticsInv
<1>2. /\ todo[c] # <<>> /\ todo[c][1].do = "load" /\ Head(todo[c]) = todo[c][1] /\ todo[c][1].setting \in Settings
  BY <1>1, SegmentRuns, SegmentFields DEF Load
<1> DEFINE s == todo[c][1].setting
<1>3. UNCHANGED <<wished, stored, monitors>>
  BY DEF Load, StatusUnchanged
<1>4. CASE statuses' = [statuses EXCEPT ![s] = stored[s]] /\ Then(c, <<>>) /\ init' = init
  <2>1. /\ <<>> \in Seq(Segments) /\ Len(<<>>) \in {0, 1} /\ \A i \in DOMAIN <<>> : FALSE
    OBVIOUS
  <2>2. CallsStep /\ NoneAdded("start") /\ NoneAdded("load")
    BY <1>1, <1>2, <1>3, <1>4, <2>1, CallReads
  <2> QED
    BY <2>2 DEF NothingBegins
<1>5. CASE Reject(c) /\ UNCHANGED statuses
  BY <1>1, <1>3, <1>5, RejectKeeps DEF CallsStep, NothingBegins
<1> QED
  BY <1>2, <1>4, <1>5 DEF Load

\* A call that goes on when init changes, or the segment that runs is one of
\* initAnalyticsStatuses.
LEMMA InitCallGoesOn ==
    ASSUME AnalyticsShape, CallsInOrder, NEW c \in Callers, todo[c] # <<>>,
           todo[c][1].do \in {"initStatuses", "initDone"}, NEW a \in Seq(Segments), Then(c, a),
           InOrder(a, c, wished[c], Len(monitors), init', stored), \A i \in DOMAIN a : a[i].do \in Initializing,
           init' = "done" \/ (Len(a) > 0 /\ a[Len(a)].do = "initDone" /\ \A i \in DOMAIN a : a[i].do \in Initializing),
           UNCHANGED <<wished, statuses, stored, monitors>>,
           init = "done" => init' = "done",
           init' = "pending" \/ init' = init \/ (\A d \in Callers \ {c} : \A i \in DOMAIN todo[d] : todo[d][i].do # "initDone")
    PROVE  /\ todo' \in [Callers -> Seq(Segments)]
           /\ CallsInOrder' /\ AskedRemain
           /\ \A kind \in {"start", "load", "initDone"} : (\A i \in DOMAIN a : a[i].do # kind) => NoneAdded(kind)
<1> DEFINE t == todo[c]
           wanted == wished[c]
           count == Len(monitors)
<1>4. AsksNoMore(a, todo[c][1]) /\ \A i \in DOMAIN a : NotAfter(a[i]) = {}
  <2>1. \A i \in DOMAIN a : a[i].do \notin Asks \cup {"setStatus", "save"}
    BY DEF Initializing, Asks
  <2> QED
    BY <2>1, NothingAsked
<1>1. /\ InOrder(t, c, wanted, count, init, stored) /\ count \in Nat /\ t # <<>>
      /\ t[1].do \notin {"getStatus", "load"} /\ t[1].do \notin Sending
      /\ InOrder(a, c, wanted, count, init', stored)
      /\ \A i \in DOMAIN a : NotAfter(a[i]) \subseteq NotAfter(t[1])
  BY <1>4 DEF CallsInOrder, AnalyticsShape, Sending
<1>2. InOrder(a \o Tail(t), c, wanted, count, init', stored)
  <2> HIDE DEF t, wanted, count
  <2> QED
    BY <1>1, GoesOnInOrder
<1>3. /\ InOrder(a \o Tail(todo[c]), c, wished'[c], Len(monitors'), init', stored')
      /\ \A d \in Callers \ {c} : wished[d] \subseteq wished'[d]
      /\ Len(monitors') \in Nat /\ Len(monitors) <= Len(monitors')
  BY <1>1, <1>2
<1> QED
  BY <1>3, <1>4, ThenKeeps

\* The promise of initAnalyticsStatuses is pending as long as its call is not done.
LEMMA DoneIsPending ==
    ASSUME CallsInOrder, NEW d \in Callers, NEW i \in DOMAIN todo[d], todo[d][i].do = "initDone"
    PROVE  init = "pending"
BY DEF CallsInOrder, InOrder, InOrderAt

LEMMA InitStatusesKeepsCalls ==
    ASSUME AnalyticsInv, NEW c \in Callers, InitStatuses(c)
    PROVE  CallsStep /\ NothingBegins
<1>1. AnalyticsShape /\ CallsInOrder /\ OneInitializes
  BY DEF AnalyticsInv
<1>2. todo[c] # <<>> /\ todo[c][1].do = "initStatuses"
  BY <1>1, SegmentRuns DEF InitStatuses
<1>3. UNCHANGED <<wished, statuses, stored, monitors>>
  BY DEF InitStatuses, StatusUnchanged
<1>4. ASSUME init = "no", init' = "pending", NEW can \in BOOLEAN,
             Then(c, (IF can THEN GetStatus(Usage) \o GetStatus(Errors) ELSE <<>>) \o Do("initDone"))
      PROVE  CallsStep /\ NothingBegins
  <2> DEFINE a == (IF can THEN GetStatus(Usage) \o GetStatus(Errors) ELSE <<>>) \o Do("initDone")
             e == Len(a)
  <2>1. /\ a \in Seq(Segments) /\ Len(a) \in {1, 3}
        /\ \A i \in DOMAIN a : a[i].do = IF i = Len(a) THEN "initDone" ELSE "getStatus"
    <3>1. [do |-> "initDone"] \in Segments /\ \A s \in Settings : [do |-> "getStatus", setting |-> s] \in Segments
      BY DEF Segments
    <3>2. CASE can
      <4>1. GetStatus(Usage) \o GetStatus(Errors) = <<[do |-> "getStatus", setting |-> Usage], [do |-> "getStatus", setting |-> Errors]>>
        BY TupleOfTwo DEF GetStatus
      <4>2. a = <<[do |-> "getStatus", setting |-> Usage], [do |-> "getStatus", setting |-> Errors], [do |-> "initDone"]>>
        BY <3>2, <4>1, TupleOfThree DEF Do
      <4> HIDE DEF a
      <4> QED
        BY <3>1, <4>2 DEF Settings
    <3>3. CASE ~ can
      <4>1. Do("initDone") = <<[do |-> "initDone"]>> /\ <<[do |-> "initDone"]>> \in Seq(Segments)
        BY <3>1 DEF Do
      <4>2. a = <<[do |-> "initDone"]>>
        BY <3>3, <4>1, ConcatEmptySeq
      <4> HIDE DEF a
      <4> QED
        BY <4>1, <4>2
    <3> QED
      BY <3>2, <3>3
  <2> HIDE DEF a
  <2>2. DOMAIN a = 1 .. e /\ e \in {1, 3} /\ \A i \in DOMAIN a : a[i].do = IF i = e THEN "initDone" ELSE "getStatus"
    BY <2>1
  <2> HIDE DEF e
  <2>3. a[e].do = "initDone" /\ e \in DOMAIN a
    BY <2>2
  <2>4. ASSUME NEW i \in DOMAIN a PROVE InOrderAt(a, i, c, wished[c], Len(monitors), init', stored)
    <3>1. i \in 1 .. e /\ a[i].do \in {"initDone", "getStatus"}
      BY <2>2
    <3>2. a[i].do = "initDone" => init' = "pending" /\ \A j \in 1 .. i - 1 : a[j].do \in {"getStatus", "load"}
      BY <1>4, <2>2, <3>1
    <3>3. a[i].do \in {"getStatus", "load"} => \E j \in i + 1 .. Len(a) : a[j].do = "initDone"
      <4>1. a[i].do \in {"getStatus", "load"} => e \in i + 1 .. Len(a)
        BY <2>2, <3>1 DEF e
      <4> QED
        BY <2>3, <4>1
    <3>4. NotAfter(a[i]) = {}
      BY <3>1 DEF NotAfter, Asks
    <3> QED
      BY <3>1, <3>2, <3>3, <3>4 DEF InOrderAt, Tracks, TurnsOff, Sending, OnlyCommand
  <2>5. InOrder(a, c, wished[c], Len(monitors), init', stored)
    BY <2>1, <2>4 DEF InOrder
  <2>6. /\ Len(a) > 0 /\ a[Len(a)].do = "initDone"
        /\ \A i \in DOMAIN a : a[i].do \in Initializing /\ a[i].do \notin {"start", "load"}
    BY <2>1, <2>2, <2>3 DEF Initializing, e
  <2>7. Then(c, a)
    BY <1>4 DEF a
  <2>8. /\ todo' \in [Callers -> Seq(Segments)] /\ CallsInOrder' /\ AskedRemain
        /\ \A kind \in {"start", "load", "initDone"} : (\A i \in DOMAIN a : a[i].do # kind) => NoneAdded(kind)
    BY <1>1, <1>2, <1>3, <1>4, <2>1, <2>5, <2>6, <2>7, InitCallGoesOn
  <2>9. OneInitializes'
    <3>1. \A d \in Callers : \A i \in DOMAIN todo[d] : todo[d][i].do # "initDone"
      BY <1>1, <1>4, DoneIsPending
    <3>2. \A d \in Callers : \A i \in DOMAIN todo'[d] :
              \/ \E j \in DOMAIN todo[d] : todo'[d][i] = todo[d][j]
              \/ d = c /\ \E j \in DOMAIN a : todo'[d][i] = a[j]
      BY <1>1, <1>2, <2>1, <2>7, ThenSegments
    <3>3. \A d \in Callers : \A i \in DOMAIN todo'[d] : todo'[d][i].do = "initDone" => d = c
      BY <3>1, <3>2
    <3> QED
      BY <3>3 DEF OneInitializes
  <2> QED
    BY <2>6, <2>8, <2>9 DEF CallsStep, NothingBegins
<1>5. CASE init = "done" /\ Then(c, <<>>) /\ init' = init
  <2>1. /\ InOrder(<<>>, c, wished[c], Len(monitors), init', stored)
        /\ <<>> \in Seq(Segments) /\ \A i \in DOMAIN <<>> : FALSE
    BY EmptyInOrder
  <2>2. /\ todo' \in [Callers -> Seq(Segments)] /\ CallsInOrder' /\ AskedRemain
        /\ NoneAdded("start") /\ NoneAdded("load") /\ NoneAdded("initDone")
    BY <1>1, <1>2, <1>3, <1>5, <2>1, InitCallGoesOn
  <2> QED
    BY <1>1, <2>2, OneStillInitializes DEF CallsStep, NothingBegins
<1>6. CASE init = "failed" /\ Reject(c)
  BY <1>1, <1>3, <1>6, RejectKeeps DEF CallsStep, NothingBegins
<1> QED
  BY <1>4, <1>5, <1>6 DEF InitStatuses

LEMMA InitDoneKeepsCalls ==
    ASSUME AnalyticsInv, NEW c \in Callers, InitDone(c)
    PROVE  CallsStep /\ NothingBegins
<1>1. AnalyticsShape /\ CallsInOrder /\ OneInitializes
  BY DEF AnalyticsInv
<1>2. todo[c] # <<>> /\ todo[c][1].do = "initDone" /\ 1 \in DOMAIN todo[c]
  BY <1>1, SegmentRuns DEF InitDone
<1>3. UNCHANGED <<wished, statuses, stored, monitors>> /\ init' = "done" /\ Then(c, <<>>)
  BY DEF InitDone, StatusUnchanged
<1>4. \A d \in Callers \ {c} : \A i \in DOMAIN todo[d] : todo[d][i].do # "initDone"
  BY <1>1, <1>2 DEF OneInitializes
<1>5. /\ InOrder(<<>>, c, wished[c], Len(monitors), init', stored)
      /\ <<>> \in Seq(Segments) /\ \A i \in DOMAIN <<>> : FALSE
  BY EmptyInOrder
<1>6. /\ todo' \in [Callers -> Seq(Segments)] /\ CallsInOrder' /\ AskedRemain
      /\ NoneAdded("start") /\ NoneAdded("load") /\ NoneAdded("initDone")
  BY <1>1, <1>2, <1>3, <1>4, <1>5, InitCallGoesOn
<1> QED
  BY <1>1, <1>6, OneStillInitializes DEF CallsStep, NothingBegins

-----------------------------------------------------------------------------
(* The statuses, the monitors and what is sent, step by step *)

\* Every segment that ends keeps the calls.
LEMMA CallerKeepsCalls ==
    ASSUME AnalyticsInv, NEW c \in Callers,
           \/ ReportException(c) \/ CheckConsent(c) \/ Confirm(c) \/ TellAnswer(c) \/ ConfirmErrors(c) \/ GetStatusOf(c) \/ Load(c)
           \/ InitStatuses(c) \/ InitDone(c) \/ BeginSetStatus(c) \/ Save(c) \/ TrackItem(c) \/ Request(c)
           \/ StartForKey(c) \/ StartEqatecMonitor(c) \/ StartSession(c) \/ UseMonitor(c) \/ EndTry(c) \/ Body(c)
    PROVE  /\ CallsStep
           /\ ~ GetStatusOf(c) => NoneAdded("load")
           /\ ~ StartEqatecMonitor(c) => NoneAdded("start")
BY ReportKeepsCalls, ConsentKeepsCalls, GetStatusKeepsCalls, LoadKeepsCalls, InitStatusesKeepsCalls, InitDoneKeepsCalls,
   BeginSetStatusKeepsCalls, SaveKeepsCalls, TrackKeepsCalls, RequestKeepsCalls, StartForKeyKeepsCalls,
   StartMonitorKeepsCalls, SessionKeepsCalls, EndsKeepCalls
   DEF NothingBegins

\* The end of the process and its interruption leave the calls alone.
LEMMA ProcessKeepsCalls ==
    ASSUME AnalyticsInv, UNCHANGED <<todo, statuses, stored, init, wished>>, Len(monitors') = Len(monitors)
    PROVE  CallsStep /\ NothingBegins
<1>1. AnalyticsShape /\ CallsInOrder /\ OneInitializes
  BY DEF AnalyticsInv
<1>2. Len(monitors') \in Nat /\ Len(monitors) <= Len(monitors') /\ todo' \in [Callers -> Seq(Segments)]
  BY <1>1 DEF AnalyticsShape
<1>3. ASSUME NEW d \in Callers PROVE InOrder(todo'[d], d, wished'[d], Len(monitors'), init', stored')
  BY <1>1, <1>2, StaysInOrder
<1>4. NoneAdded("start") /\ NoneAdded("load") /\ NoneAdded("initDone") /\ AskedRemain
  BY DEF NoneAdded, AskedRemain, Asked
<1> QED
  BY <1>1, <1>2, <1>3, <1>4, OneStillInitializes DEF CallsStep, NothingBegins, CallsInOrder

\* The statuses when a step changes neither them nor the file nor the wishes.
LEMMA StatusesRemain ==
    ASSUME StatusesFollowWishes, UNCHANGED <<statuses, stored, wish>>, NoneAdded("load"), AskedRemain,
           \/ wished' = wished
           \/ \A s \in Settings : /\ \A d \in Callers : wish[s] => s \in wished'[d]
                                  /\ s \in wished'["command"] => wish[s]
    PROVE  StatusesFollowWishes'
<1> SUFFICES ASSUME NEW s \in Settings
             PROVE  /\ wish[s] => \A d \in Callers : s \in wished'[d]
                    /\ s \in wished'["command"] => wish[s]
                    /\ statuses[s] = "enabled" => wish[s]
                    /\ statuses[s] = "notConfirmed" => stored[s] = "notConfirmed" \/ Asked(s)'
                    /\ stored[s] = "enabled" =>
                          \/ wish[s]
                          \/ /\ statuses[s] # "unloaded"
                             /\ \A c \in Callers : \A i \in DOMAIN todo'[c] : todo'[c][i].do = "load" => todo'[c][i].setting # s
  BY DEF StatusesFollowWishes
<1>1. Asked(s) => Asked(s)'
  BY DEF AskedRemain
<1> QED
  BY <1>1 DEF StatusesFollowWishes, NoneAdded

\* No call reads the file when the statuses are there or will be, and the command
\* begins to change a setting.
LEMMA NothingReadsMeanwhile ==
    ASSUME AnalyticsInv, NEW c \in Callers, BeginSetStatus(c), TurnsOff(todo[c][1]), stored[todo[c][1].setting] = "enabled"
    PROVE  \A d \in Callers : \A i \in DOMAIN todo[d] : todo[d][i].do # "load"
<1>1. AnalyticsShape /\ CallsInOrder /\ OneInitializes
  BY DEF AnalyticsInv
<1>2. /\ todo[c][1].do = "setStatus" /\ todo[c] \in Seq(Segments) /\ todo[c] # <<>>
      /\ InOrderAt(todo[c], 1, c, wished[c], Len(monitors), init, stored)
  BY <1>1, SegmentRuns DEF BeginSetStatus
<1>3. c = "command"
  BY <1>2 DEF InOrderAt, OnlyCommand
<1>4. ~ Awaits(todo[c], 1)
  BY DEF Awaits
<1>5. init = "done"
  BY <1>2, <1>3, <1>4 DEF InOrderAt
<1> SUFFICES ASSUME NEW d \in Callers, NEW i \in DOMAIN todo[d], todo[d][i].do = "load" PROVE FALSE
  OBVIOUS
<1>6. InOrderAt(todo[d], i, d, wished[d], Len(monitors), init, stored)
  BY <1>1 DEF CallsInOrder, InOrder
<1>7. CASE d = "command"
  <2>1. i = 1
    BY <1>6 DEF InOrderAt
  <2> QED
    BY <1>2, <1>3, <1>7, <2>1
<1>8. CASE d # "command"
  <2>1. PICK j \in i + 1 .. Len(todo[d]) : todo[d][j].do = "initDone"
    BY <1>6, <1>8 DEF InOrderAt
  <2>2. todo[d] \in Seq(Segments) /\ i \in Nat /\ i >= 1
    <3>1. todo[d] \in Seq(Segments)
      BY <1>1 DEF AnalyticsShape
    <3> QED
      BY <3>1
  <2>3. j \in DOMAIN todo[d]
    BY <2>1, <2>2
  <2>4. init = "pending"
    BY <1>1, <2>1, <2>3, DoneIsPending
  <2> QED
    BY <1>5, <2>4
<1> QED
  BY <1>7, <1>8

\* What is known follows what the user wants, after every segment.
LEMMA StatusesStep ==
    ASSUME AnalyticsInv, NEW c \in Callers,
           \/ ReportException(c) \/ CheckConsent(c) \/ Confirm(c) \/ TellAnswer(c) \/ ConfirmErrors(c) \/ GetStatusOf(c) \/ Load(c)
           \/ InitStatuses(c) \/ InitDone(c) \/ BeginSetStatus(c) \/ Save(c) \/ TrackItem(c) \/ Request(c)
           \/ StartForKey(c) \/ StartEqatecMonitor(c) \/ StartSession(c) \/ UseMonitor(c) \/ EndTry(c) \/ Body(c)
    PROVE  StatusesFollowWishes'
<1>1. AnalyticsShape /\ CallsInOrder /\ StatusesFollowWishes
  BY DEF AnalyticsInv
<1>2. (~ GetStatusOf(c) => NoneAdded("load")) /\ AskedRemain
  BY CallerKeepsCalls DEF CallsStep
<1>3. CASE ReportException(c)
  <2>1. ASSUME NEW s \in Settings
        PROVE  /\ \A d \in Callers : wish[s] => s \in wished'[d]
               /\ s \in wished'["command"] => wish[s]
    <3>1. wished' = [wished EXCEPT ![c] = {r \in Settings : wish[r]}] /\ wished \in [Callers -> SUBSET Settings] /\ "command" \in Callers
      BY <1>1, <1>3 DEF ReportException, AnalyticsShape, Callers
    <3>2. s \in {r \in Settings : wish[r]} <=> wish[s]
      OBVIOUS
    <3> QED
      BY <1>1, <3>1, <3>2 DEF StatusesFollowWishes
  <2>2. UNCHANGED <<statuses, stored, wish>> /\ ~ GetStatusOf(c)
    BY <1>1, <1>3, SegmentRuns DEF ReportException, GetStatusOf
  <2> QED
    BY <1>1, <1>2, <2>1, <2>2, StatusesRemain
<1>4. CASE /\ UNCHANGED <<statuses, stored, wish, wished>> /\ ~ GetStatusOf(c)
  BY <1>1, <1>2, <1>4, StatusesRemain
<1>5. CASE GetStatusOf(c)
  <2>1. UNCHANGED <<statuses, stored, wish, wished>>
    BY <1>5 DEF GetStatusOf, StatusUnchanged
  <2>2. \A d \in Callers : \A i \in DOMAIN todo'[d] : todo'[d][i].do = "load" =>
                 \/ \E j \in DOMAIN todo[d] : todo'[d][i] = todo[d][j]
                 \/ statuses[todo'[d][i].setting] = "unloaded"
    BY <1>5, GetStatusKeepsCalls
  <2> SUFFICES ASSUME NEW s \in Settings
               PROVE  /\ wish[s] => \A d \in Callers : s \in wished[d]
                      /\ s \in wished["command"] => wish[s]
                      /\ statuses[s] = "enabled" => wish[s]
                      /\ statuses[s] = "notConfirmed" => stored[s] = "notConfirmed" \/ Asked(s)'
                      /\ stored[s] = "enabled" =>
                            \/ wish[s]
                            \/ /\ statuses[s] # "unloaded"
                               /\ \A d \in Callers : \A i \in DOMAIN todo'[d] : todo'[d][i].do = "load" => todo'[d][i].setting # s
    BY <2>1 DEF StatusesFollowWishes
  <2>3. Asked(s) => Asked(s)'
    BY <1>2 DEF AskedRemain
  <2> QED
    BY <1>1, <2>2, <2>3 DEF StatusesFollowWishes
<1>6. CASE Load(c) /\ ~ GetStatusOf(c)
  <2> DEFINE s == todo[c][1].setting
  <2>1. todo[c][1].do = "load" /\ 1 \in DOMAIN todo[c] /\ Head(todo[c]) = todo[c][1] /\ s \in Settings
    BY <1>1, <1>6, SegmentRuns, SegmentFields DEF Load
  <2>2. UNCHANGED <<stored, wish, wished>> /\ NoneAdded("load")
    BY <1>2, <1>6 DEF Load, StatusUnchanged
  <2>3. CASE statuses' = [statuses EXCEPT ![s] = stored[s]]
    <3>1. \A r \in Settings : statuses'[r] = IF r = s THEN stored[s] ELSE statuses[r]
      BY <1>1, <2>3 DEF AnalyticsShape
    <3>2. stored[s] = "enabled" => wish[s]
      BY <1>1, <2>1 DEF StatusesFollowWishes
    <3> SUFFICES ASSUME NEW r \in Settings
                 PROVE  /\ wish[r] => \A d \in Callers : r \in wished[d]
                        /\ r \in wished["command"] => wish[r]
                        /\ statuses'[r] = "enabled" => wish[r]
                        /\ statuses'[r] = "notConfirmed" => stored[r] = "notConfirmed" \/ Asked(r)'
                        /\ stored[r] = "enabled" =>
                              \/ wish[r]
                              \/ /\ statuses'[r] # "unloaded"
                                 /\ \A d \in Callers : \A i \in DOMAIN todo'[d] : todo'[d][i].do = "load" => todo'[d][i].setting # r
      BY <2>2 DEF StatusesFollowWishes
    <3> HIDE DEF s
    <3>3. CASE r = s
      BY <1>1, <2>1, <3>1, <3>2, <3>3 DEF StatusesFollowWishes
    <3>5. Asked(r) => Asked(r)'
      BY <1>2 DEF AskedRemain
    <3>4. CASE r # s
      BY <1>1, <2>2, <3>1, <3>4, <3>5 DEF StatusesFollowWishes, NoneAdded
    <3> QED
      BY <3>3, <3>4
  <2>4. CASE UNCHANGED statuses
    BY <1>1, <1>2, <2>2, <2>4, StatusesRemain
  <2> QED
    BY <1>6, <2>1, <2>3, <2>4 DEF Load
<1>7. CASE BeginSetStatus(c) /\ ~ GetStatusOf(c)
  <2> DEFINE s == todo[c][1].setting
             on == todo[c][1].enabled
  <2>1. todo[c][1].do = "setStatus" /\ Head(todo[c]) = todo[c][1] /\ s \in Settings /\ on \in BOOLEAN
    BY <1>1, <1>7, SegmentRuns, SegmentFields DEF BeginSetStatus
  <2>2. /\ statuses' = [statuses EXCEPT ![s] = IF on THEN "enabled" ELSE "disabled"]
        /\ wish' = [wish EXCEPT ![s] = on]
        /\ wished' = [d \in Callers |-> IF on THEN wished[d] \cup {s} ELSE IF d = c THEN wished[d] \ {s} ELSE wished[d]]
        /\ stored' = stored /\ NoneAdded("load")
    BY <1>2, <1>7, <2>1 DEF BeginSetStatus
  <2>7. c = "command" /\ c \in Callers
    BY <1>1, <1>7, <2>1, SegmentRuns DEF BeginSetStatus, InOrderAt, OnlyCommand
  <2>3. ~ on /\ stored[s] = "enabled" => \A d \in Callers : \A i \in DOMAIN todo[d] : todo[d][i].do # "load"
    BY <1>7, <2>1, NothingReadsMeanwhile DEF TurnsOff
  <2> HIDE DEF s, on
  <2>4. \A r \in Settings : /\ statuses'[r] = IF r = s THEN IF on THEN "enabled" ELSE "disabled" ELSE statuses[r]
                            /\ wish'[r] = IF r = s THEN on ELSE wish[r]
    BY <1>1, <2>2 DEF AnalyticsShape
  <2> SUFFICES ASSUME NEW r \in Settings
               PROVE  /\ wish'[r] => \A d \in Callers : r \in wished'[d]
                      /\ r \in wished'["command"] => wish'[r]
                      /\ statuses'[r] = "enabled" => wish'[r]
                      /\ statuses'[r] = "notConfirmed" => stored[r] = "notConfirmed" \/ Asked(r)'
                      /\ stored[r] = "enabled" =>
                            \/ wish'[r]
                            \/ /\ statuses'[r] # "unloaded"
                               /\ \A d \in Callers : \A i \in DOMAIN todo'[d] : todo'[d][i].do = "load" => todo'[d][i].setting # r
    BY <2>2 DEF StatusesFollowWishes
  <2>5. CASE r = s
    <3>1. /\ wish'[r] => \A d \in Callers : r \in wished'[d]
          /\ r \in wished'["command"] => wish'[r]
      BY <2>2, <2>4, <2>5, <2>7
    <3>2. ~ on /\ stored[s] = "enabled" => \A d \in Callers : \A i \in DOMAIN todo'[d] : todo'[d][i].do # "load"
      BY <2>2, <2>3 DEF NoneAdded
    <3> QED
      BY <2>1, <2>4, <2>5, <3>1, <3>2
  <2>6. CASE r # s
    <3>1. /\ statuses'[r] = statuses[r] /\ wish'[r] = wish[r]
          /\ \A d \in Callers : r \in wished[d] => r \in wished'[d]
          /\ r \in wished'["command"] => r \in wished["command"]
      BY <2>2, <2>4, <2>6, <2>7
    <3>2. Asked(r) => Asked(r)'
      BY <1>2 DEF AskedRemain
    <3> QED
      BY <1>1, <2>2, <3>1, <3>2 DEF StatusesFollowWishes, NoneAdded
  <2> QED
    BY <2>5, <2>6
<1>8. CASE Save(c) /\ ~ GetStatusOf(c)
  <2> DEFINE s == todo[c][1].setting
             on == todo[c][1].enabled
  <2>1. /\ todo[c][1].do = "save" /\ Head(todo[c]) = todo[c][1] /\ s \in Settings /\ on \in BOOLEAN
        /\ todo[c] \in Seq(Segments) /\ todo[c] # <<>>
        /\ InOrderAt(todo[c], 1, c, wished[c], Len(monitors), init, stored)
    BY <1>1, <1>8, SegmentRuns, SegmentFields DEF Save
  <2>2. UNCHANGED <<statuses, wish, wished>> /\ NoneAdded("load")
    BY <1>2, <1>8 DEF Save
  <2>3. c = "command" /\ (on => s \in wished["command"])
    BY <2>1 DEF InOrderAt, OnlyCommand
  <2>4. CASE stored' = [stored EXCEPT ![s] = IF on THEN "enabled" ELSE "disabled"] /\ Then(c, <<>>)
    <3>1. \A r \in Settings : stored'[r] = IF r = s THEN (IF on THEN "enabled" ELSE "disabled") ELSE stored[r]
      BY <1>1, <2>4 DEF AnalyticsShape
    <3>2. on => wish[s]
      BY <1>1, <2>1, <2>3 DEF StatusesFollowWishes
    <3>3. ASSUME NEW r \in Settings, r = s PROVE Asked(r)'
      <4>1. todo'["command"] = Tail(todo[c])
        <5>1. Tail(todo[c]) \in Seq(Segments)
          BY <2>1, HeadTailProperties
        <5>2. todo'["command"] = <<>> \o Tail(todo[c])
          BY <1>1, <2>3, <2>4 DEF Then, AnalyticsShape
        <5> QED
          BY <5>1, <5>2, ConcatEmptySeq
      <4>2. Len(todo[c]) \in Nat /\ DOMAIN Tail(todo[c]) = 1 .. Len(todo[c]) - 1 /\ \A i \in 1 .. Len(todo[c]) - 1 : Tail(todo[c])[i] = todo[c][i + 1]
        BY <2>1, HeadTailProperties
      <4>3. \A j \in 2 .. Len(todo[c]) : todo[c][j].do \notin AsksFor(r)
        BY <2>1, <3>3 DEF InOrderAt, NotAfter, Asks
      <4> HIDE DEF s
      <4>4. ASSUME NEW i \in DOMAIN Tail(todo[c]) PROVE Tail(todo[c])[i].do \notin AsksFor(r)
        <5>1. i + 1 \in 2 .. Len(todo[c]) /\ Tail(todo[c])[i] = todo[c][i + 1]
          BY <4>2, <4>4
        <5> QED
          BY <4>3, <5>1
      <4> QED
        BY <4>1, <4>4 DEF Asked
    <3> HIDE DEF s, on
    <3> SUFFICES ASSUME NEW r \in Settings
                 PROVE  /\ statuses[r] = "notConfirmed" => stored'[r] = "notConfirmed" \/ Asked(r)'
                        /\ stored'[r] = "enabled" =>
                              \/ wish[r]
                              \/ /\ statuses[r] # "unloaded"
                                 /\ \A d \in Callers : \A i \in DOMAIN todo'[d] : todo'[d][i].do = "load" => todo'[d][i].setting # r
      BY <1>1, <2>2 DEF StatusesFollowWishes
    <3>4. CASE r = s
      <4>1. Asked(r)'
        BY <3>3, <3>4
      <4> QED
        BY <1>1, <2>2, <3>1, <3>2, <3>4, <4>1 DEF StatusesFollowWishes, NoneAdded
    <3>5. CASE r # s
      <4>1. Asked(r) => Asked(r)'
        BY <1>2 DEF AskedRemain
      <4> QED
        BY <1>1, <2>2, <3>1, <3>5, <4>1 DEF StatusesFollowWishes, NoneAdded
    <3> QED
      BY <3>4, <3>5
  <2>5. CASE UNCHANGED stored
    BY <1>1, <1>2, <2>2, <2>5, StatusesRemain
  <2> QED
    BY <1>8, <2>1, <2>4, <2>5 DEF Save
<1>9. GetStatusOf(c) \/ (~ GetStatusOf(c) /\ (ReportException(c) \/ Load(c) \/ BeginSetStatus(c) \/ Save(c) \/ UNCHANGED <<statuses, stored, wish, wished>>))
  BY DEF CheckConsent, Confirm, TellAnswer, ConfirmErrors, InitStatuses, InitDone, StatusUnchanged, TrackItem, Request, SendUnchanged,
         StartForKey, StartEqatecMonitor, StartSession, UseMonitor, EndTry, Body
<1> QED
  BY <1>3, <1>4, <1>5, <1>6, <1>7, <1>8, <1>9

\* The monitors when a step leaves them alone and no session begins.
LEMMA MonitorsRemain ==
    ASSUME MonitorsAreKept, UNCHANGED <<monitors, current, listening, analyticsProcess>>, NoneAdded("start")
    PROVE  MonitorsAreKept'
<1>1. ASSUME NEW c \in Callers, NEW i \in DOMAIN todo'[c], todo'[c][i].do = "start"
      PROVE  LET m == todo'[c][i].monitor
             IN  /\ m \in DOMAIN monitors
                 /\ monitors[m].state = "created" \/ ~ monitors[m].kept
                 /\ \A d \in Callers : \A j \in DOMAIN todo'[d] :
                       todo'[d][j].do = "start" /\ todo'[d][j].monitor = m => d = c
  <2>1. PICK k \in DOMAIN todo[c] : todo[c][k] = todo'[c][i]
    BY <1>1 DEF NoneAdded
  <2>2. \A d \in Callers : \A j \in DOMAIN todo'[d] : todo'[d][j].do = "start" =>
           \E l \in DOMAIN todo[d] : todo[d][l] = todo'[d][j]
    BY DEF NoneAdded
  <2> QED
    BY <1>1, <2>1, <2>2 DEF MonitorsAreKept
<1> QED
  BY <1>1 DEF MonitorsAreKept

\* Stopping the monitors keeps what is known of them.
LEMMA StopKeepsMonitors ==
    ASSUME AnalyticsShape, MonitorsAreKept, TryStopEqatecMonitors, listening' = listening, NoneAdded("start")
    PROVE  MonitorsAreKept'
<1>1. /\ DOMAIN monitors' = DOMAIN monitors
      /\ current' = [k \in Keys |-> 0]
      /\ \A m \in DOMAIN monitors :
            /\ monitors'[m].key = monitors[m].key
            /\ IF current[monitors[m].key] = m
               THEN monitors'[m].state = "stopped" /\ monitors'[m].kept = (monitors[m].kept /\ monitors[m].state = "running")
               ELSE monitors'[m] = monitors[m]
  BY StopKeepsShape
<1>2. \A m \in DOMAIN monitors : monitors[m] \in Monitors
  BY DEF AnalyticsShape
<1>3. ASSUME NEW m \in DOMAIN monitors'
      PROVE  /\ ~ (monitors'[m].state # "stopped" /\ monitors'[m].kept)
             /\ monitors'[m].state = "running" => listening'
  BY <1>1, <1>3 DEF MonitorsAreKept
<1>4. ASSUME NEW c \in Callers, NEW i \in DOMAIN todo'[c], todo'[c][i].do = "start"
      PROVE  LET m == todo'[c][i].monitor
             IN  /\ m \in DOMAIN monitors'
                 /\ monitors'[m].state = "created" \/ ~ monitors'[m].kept
                 /\ \A d \in Callers : \A j \in DOMAIN todo'[d] :
                       todo'[d][j].do = "start" /\ todo'[d][j].monitor = m => d = c
  <2> DEFINE m == todo'[c][i].monitor
  <2>1. PICK k \in DOMAIN todo[c] : todo[c][k] = todo'[c][i]
    BY <1>4 DEF NoneAdded
  <2>2. \A d \in Callers : \A j \in DOMAIN todo'[d] : todo'[d][j].do = "start" =>
           \E l \in DOMAIN todo[d] : todo[d][l] = todo'[d][j]
    BY DEF NoneAdded
  <2>3. /\ m \in DOMAIN monitors /\ (monitors[m].state = "created" \/ ~ monitors[m].kept)
        /\ \A d \in Callers : \A j \in DOMAIN todo'[d] :
                       todo'[d][j].do = "start" /\ todo'[d][j].monitor = m => d = c
    BY <1>4, <2>1, <2>2 DEF MonitorsAreKept
  <2> HIDE DEF m
  <2>4. monitors'[m].state = "created" \/ ~ monitors'[m].kept
    <3>1. CASE current[monitors[m].key] = m
      BY <1>1, <2>3, <3>1
    <3>2. CASE current[monitors[m].key] # m
      BY <1>1, <2>3, <3>2
    <3> QED
      BY <3>1, <3>2
  <2> QED
    BY <1>1, <2>3, <2>4 DEF m
<1> QED
  BY <1>1, <1>3, <1>4 DEF MonitorsAreKept

LEMMA StartMonitorKeepsMonitors ==
    ASSUME AnalyticsInv, NEW c \in Callers, StartEqatecMonitor(c)
    PROVE  MonitorsAreKept'
<1>1. AnalyticsShape /\ CallsInOrder /\ MonitorsAreKept
  BY DEF AnalyticsInv
<1>2. UNCHANGED <<listening, analyticsProcess>> /\ analyticsProcess = "runs"
  BY <1>1, SegmentRuns DEF StartEqatecMonitor, SendUnchanged
<1>3. CASE monitors' = monitors /\ current' = current /\ NothingBegins
  BY <1>1, <1>2, <1>3, MonitorsRemain DEF NothingBegins
<1> DEFINE key == todo[c][1].key
           new == [key |-> key, state |-> "created", kept |-> TRUE]
           last == Len(monitors) + 1
<1>4. CASE /\ key \in Keys /\ current[key] = 0
           /\ monitors' = Append(monitors, new)
           /\ current' = [current EXCEPT ![key] = last]
           /\ \A d \in Callers : \A i \in DOMAIN todo'[d] : todo'[d][i].do = "start" =>
                       \/ \E j \in DOMAIN todo[d] : todo'[d][i] = todo[d][j]
                       \/ d = c /\ todo'[d][i].monitor = last
  <2>1. /\ monitors \in Seq(Monitors) /\ Len(monitors) \in Nat /\ DOMAIN monitors = 1 .. Len(monitors)
        /\ current \in [Keys -> 0 .. Len(monitors)] /\ new \in Monitors
    BY <1>1, <1>4 DEF AnalyticsShape, Monitors
  <2>2. /\ DOMAIN monitors' = 1 .. last /\ monitors'[last] = new /\ last \notin DOMAIN monitors /\ last # 0
        /\ \A m \in DOMAIN monitors : monitors'[m] = monitors[m] /\ m # last /\ monitors[m] \in Monitors
        /\ \A m \in DOMAIN monitors' : m = last \/ m \in DOMAIN monitors
    <3> HIDE DEF new
    <3> QED
      BY <1>4, <2>1
  <2>3. new.key = key /\ new.state = "created" /\ new.kept
    OBVIOUS
  <2> HIDE DEF new, last, key
  <2>4. \A k \in Keys : current'[k] = IF k = key THEN last ELSE current[k]
    BY <1>4, <2>1
  <2>5. ASSUME NEW m \in DOMAIN monitors'
        PROVE  /\ monitors'[m].state # "stopped" /\ monitors'[m].kept => current'[monitors'[m].key] = m
               /\ monitors'[m].state = "running" => listening'
    <3>1. CASE m = last
      BY <1>4, <2>2, <2>3, <2>4, <3>1
    <3>2. CASE m \in DOMAIN monitors
      <4>1. monitors'[m] = monitors[m] /\ monitors[m].key \in Keys /\ m # 0
        <5>1. monitors'[m] = monitors[m] /\ monitors[m] \in Monitors /\ m # 0
          BY <2>1, <2>2, <3>2
        <5> QED
          BY <5>1 DEF Monitors
      <4>2. /\ monitors[m].state # "stopped" /\ monitors[m].kept => current[monitors[m].key] = m
            /\ monitors[m].state = "running" => listening
        BY <1>1, <3>2 DEF MonitorsAreKept
      <4> QED
        BY <1>2, <1>4, <2>4, <4>1, <4>2
    <3> QED
      BY <2>2, <3>1, <3>2
  <2>6. ASSUME NEW k \in Keys, current'[k] # 0
        PROVE  monitors'[current'[k]].key = k /\ monitors'[current'[k]].state # "stopped" /\ monitors'[current'[k]].kept
    <3>1. CASE k = key
      BY <2>2, <2>3, <2>4, <3>1
    <3>2. CASE k # key
      <4>1. current'[k] = current[k] /\ current[k] \in DOMAIN monitors
        BY <2>1, <2>4, <2>6, <3>2
      <4> QED
        BY <1>1, <2>2, <2>6, <4>1 DEF MonitorsAreKept
    <3> QED
      BY <3>1, <3>2
  <2>7. ASSUME NEW d \in Callers, NEW i \in DOMAIN todo'[d], todo'[d][i].do = "start"
        PROVE  LET m == todo'[d][i].monitor
               IN  /\ m \in DOMAIN monitors'
                   /\ monitors'[m].state = "created" \/ ~ monitors'[m].kept
                   /\ \A e \in Callers : \A j \in DOMAIN todo'[e] :
                         todo'[e][j].do = "start" /\ todo'[e][j].monitor = m => e = d
    <3>1. \A e \in Callers : \A j \in DOMAIN todo[e] : todo[e][j].do = "start" => todo[e][j].monitor \in DOMAIN monitors
      BY <1>1 DEF MonitorsAreKept
    <3>2. CASE d = c /\ todo'[d][i].monitor = last
      <4>1. ASSUME NEW e \in Callers, NEW j \in DOMAIN todo'[e], todo'[e][j].do = "start", todo'[e][j].monitor = last
            PROVE  e = d
        BY <1>4, <2>2, <3>1, <3>2, <4>1
      <4>2. last \in DOMAIN monitors' /\ monitors'[last].state = "created"
        BY <2>1, <2>2, <2>3 DEF last
      <4> QED
        BY <3>2, <4>1, <4>2
    <3>3. CASE \E k \in DOMAIN todo[d] : todo'[d][i] = todo[d][k]
      <4>1. PICK k \in DOMAIN todo[d] : todo'[d][i] = todo[d][k]
        BY <3>3
      <4> DEFINE m == todo'[d][i].monitor
      <4>2. /\ m \in DOMAIN monitors /\ (monitors[m].state = "created" \/ ~ monitors[m].kept)
            /\ \A e \in Callers : \A j \in DOMAIN todo[e] :
                  todo[e][j].do = "start" /\ todo[e][j].monitor = m => e = d
        BY <1>1, <2>7, <4>1 DEF MonitorsAreKept
      <4>3. m # last /\ monitors'[m] = monitors[m] /\ m \in DOMAIN monitors'
        BY <2>1, <2>2, <4>2 DEF last
      <4>4. ASSUME NEW e \in Callers, NEW j \in DOMAIN todo'[e], todo'[e][j].do = "start", todo'[e][j].monitor = m
            PROVE  e = d
        BY <1>4, <4>2, <4>3, <4>4
      <4> QED
        BY <4>2, <4>3, <4>4
    <3> QED
      BY <1>4, <2>7, <3>2, <3>3
  <2> QED
    BY <1>2, <2>5, <2>6, <2>7 DEF MonitorsAreKept
<1> QED
  BY <1>3, <1>4, StartMonitorKeepsCalls

LEMMA SessionKeepsMonitors ==
    ASSUME AnalyticsInv, NEW c \in Callers, StartSession(c)
    PROVE  MonitorsAreKept'
<1>1. AnalyticsShape /\ CallsInOrder /\ MonitorsAreKept
  BY DEF AnalyticsInv
<1> DEFINE m == todo[c][1].monitor
<1>2. /\ NoneAdded("start") /\ todo[c][1].do = "start" /\ 1 \in DOMAIN todo[c] /\ m \in 1 .. Len(monitors)
      /\ \A i \in DOMAIN todo'[c] : todo'[c][i].do # "start"
  BY SessionKeepsCalls DEF NothingBegins
<1>3. UNCHANGED <<current, analyticsProcess>> /\ analyticsProcess = "runs" /\ Head(todo[c]) = todo[c][1]
  BY <1>1, SegmentRuns DEF StartSession, SendUnchanged
<1>4. CASE UNCHANGED <<monitors, listening>>
  BY <1>1, <1>2, <1>3, <1>4, MonitorsRemain
<1>5. CASE monitors' = [monitors EXCEPT ![m].state = "running"] /\ listening' = TRUE
  <2>1. monitors \in Seq(Monitors) /\ DOMAIN monitors = 1 .. Len(monitors) /\ monitors[m] \in Monitors /\ current \in [Keys -> 0 .. Len(monitors)]
    <3>1. monitors \in Seq(Monitors) /\ current \in [Keys -> 0 .. Len(monitors)]
      BY <1>1 DEF AnalyticsShape
    <3> HIDE DEF m
    <3> QED
      BY <1>2, <3>1
  <2>2. /\ m \in DOMAIN monitors /\ (monitors[m].state = "created" \/ ~ monitors[m].kept)
        /\ \A d \in Callers : \A j \in DOMAIN todo[d] : todo[d][j].do = "start" /\ todo[d][j].monitor = m => d = c
    BY <1>1, <1>2 DEF MonitorsAreKept
  <2> HIDE DEF m
  <2>3. /\ DOMAIN monitors' = DOMAIN monitors
        /\ \A n \in DOMAIN monitors :
              /\ monitors'[n].key = monitors[n].key /\ monitors'[n].kept = monitors[n].kept
              /\ monitors'[n].state = IF n = m THEN "running" ELSE monitors[n].state
    <3>1. monitors' = [monitors EXCEPT ![m] = [monitors[m] EXCEPT !.state = "running"]]
      BY <1>5
    <3> QED
      BY <2>1, <2>2, <3>1 DEF Monitors
  <2>4. ASSUME NEW n \in DOMAIN monitors'
        PROVE  /\ monitors'[n].state # "stopped" /\ monitors'[n].kept => current'[monitors'[n].key] = n
               /\ monitors'[n].state = "running" => listening'
    BY <1>1, <1>3, <1>5, <2>2, <2>3, <2>4 DEF MonitorsAreKept
  <2>5. ASSUME NEW k \in Keys, current'[k] # 0
        PROVE  monitors'[current'[k]].key = k /\ monitors'[current'[k]].state # "stopped" /\ monitors'[current'[k]].kept
    <3>1. current[k] \in DOMAIN monitors /\ current'[k] = current[k]
      BY <1>3, <2>1, <2>5
    <3> QED
      BY <1>1, <2>3, <2>5, <3>1 DEF MonitorsAreKept
  <2>6. ASSUME NEW d \in Callers, NEW i \in DOMAIN todo'[d], todo'[d][i].do = "start"
        PROVE  LET n == todo'[d][i].monitor
               IN  /\ n \in DOMAIN monitors'
                   /\ monitors'[n].state = "created" \/ ~ monitors'[n].kept
                   /\ \A e \in Callers : \A j \in DOMAIN todo'[e] :
                         todo'[e][j].do = "start" /\ todo'[e][j].monitor = n => e = d
    <3> DEFINE n == todo'[d][i].monitor
    <3>1. PICK k \in DOMAIN todo[d] : todo[d][k] = todo'[d][i]
      BY <1>2, <2>6 DEF NoneAdded
    <3>2. d # c
      BY <1>2, <2>6
    <3>3. n # m
      BY <2>2, <2>6, <3>1, <3>2
    <3>4. \A e \in Callers : \A j \in DOMAIN todo'[e] : todo'[e][j].do = "start" =>
             \E l \in DOMAIN todo[e] : todo[e][l] = todo'[e][j]
      BY <1>2 DEF NoneAdded
    <3>5. /\ n \in DOMAIN monitors /\ (monitors[n].state = "created" \/ ~ monitors[n].kept)
          /\ \A e \in Callers : \A j \in DOMAIN todo'[e] :
                todo'[e][j].do = "start" /\ todo'[e][j].monitor = n => e = d
      BY <1>1, <2>6, <3>1, <3>4 DEF MonitorsAreKept
    <3> QED
      BY <2>3, <3>3, <3>5
  <2> QED
    BY <1>3, <2>4, <2>5, <2>6 DEF MonitorsAreKept
<1> QED
  BY <1>3, <1>4, <1>5 DEF StartSession

\* The monitors are kept by every segment.
LEMMA MonitorsStep ==
    ASSUME AnalyticsInv, NEW c \in Callers,
           \/ ReportException(c) \/ CheckConsent(c) \/ Confirm(c) \/ TellAnswer(c) \/ ConfirmErrors(c) \/ GetStatusOf(c) \/ Load(c)
           \/ InitStatuses(c) \/ InitDone(c) \/ BeginSetStatus(c) \/ Save(c) \/ TrackItem(c) \/ Request(c)
           \/ StartForKey(c) \/ StartEqatecMonitor(c) \/ StartSession(c) \/ UseMonitor(c) \/ EndTry(c) \/ Body(c)
    PROVE  MonitorsAreKept'
<1>1. AnalyticsShape /\ MonitorsAreKept /\ (~ StartEqatecMonitor(c) => NoneAdded("start"))
  BY CallerKeepsCalls DEF AnalyticsInv
<1>2. CASE ~ StartEqatecMonitor(c) /\ UNCHANGED <<monitors, current, listening, analyticsProcess>>
  BY <1>1, <1>2, MonitorsRemain
<1>3. CASE ~ StartEqatecMonitor(c) /\ TryStopEqatecMonitors /\ listening' = listening
  BY <1>1, <1>3, StopKeepsMonitors
<1>4. \/ StartEqatecMonitor(c) \/ StartSession(c)
      \/ UNCHANGED <<monitors, current, listening, analyticsProcess>>
      \/ TryStopEqatecMonitors /\ listening' = listening
  BY DEF ReportException, CheckConsent, Confirm, TellAnswer, ConfirmErrors, GetStatusOf, Load, InitStatuses, InitDone, BeginSetStatus,
         StatusUnchanged, Save, TrackItem, Request, SendUnchanged, StartForKey, UseMonitor, EndTry, Body
<1> QED
  BY <1>2, <1>3, <1>4, StartMonitorKeepsMonitors, SessionKeepsMonitors

\* So do the end and the interruption of the process.
LEMMA ProcessKeepsMonitors ==
    ASSUME AnalyticsInv, Exit \/ Interrupt
    PROVE  MonitorsAreKept'
<1>1. AnalyticsShape /\ MonitorsAreKept
  BY DEF AnalyticsInv
<1>2. NoneAdded("start") /\ listening' = listening /\ todo' = todo
  BY DEF NoneAdded, Exit, Interrupt
<1>3. CASE TryStopEqatecMonitors
  BY <1>1, <1>2, <1>3, StopKeepsMonitors
<1>4. CASE ~ listening /\ UNCHANGED <<monitors, current>>
  <2>1. \A k \in Keys : current[k] = 0 \/ monitors[current[k]].state = "created"
    <3> SUFFICES ASSUME NEW k \in Keys, current[k] # 0 PROVE monitors[current[k]].state = "created"
      OBVIOUS
    <3>1. current[k] \in DOMAIN monitors /\ monitors[current[k]] \in Monitors
      BY <1>1 DEF AnalyticsShape
    <3>2. monitors[current[k]].state # "stopped" /\ monitors[current[k]].state # "running"
      BY <1>1, <1>4, <3>1 DEF MonitorsAreKept
    <3> QED
      BY <3>1, <3>2 DEF Monitors
  <2> QED
    BY <1>1, <1>2, <1>4, <2>1 DEF MonitorsAreKept
<1> QED
  BY <1>3, <1>4 DEF Exit, Interrupt

\* The types are kept by every segment.
LEMMA ShapeStep ==
    ASSUME AnalyticsInv, NEW c \in Callers,
           \/ ReportException(c) \/ CheckConsent(c) \/ Confirm(c) \/ TellAnswer(c) \/ ConfirmErrors(c) \/ GetStatusOf(c) \/ Load(c)
           \/ InitStatuses(c) \/ InitDone(c) \/ BeginSetStatus(c) \/ Save(c) \/ TrackItem(c) \/ Request(c)
           \/ StartForKey(c) \/ StartEqatecMonitor(c) \/ StartSession(c) \/ UseMonitor(c) \/ EndTry(c) \/ Body(c)
    PROVE  AnalyticsShape'
<1>1. AnalyticsShape /\ CallsInOrder
  BY DEF AnalyticsInv
<1>2. todo' \in [Callers -> Seq(Segments)]
  BY CallerKeepsCalls DEF CallsStep
<1>3. init' \in {"no", "pending", "done", "failed"}
  <2>1. init' = init \/ init' = "pending" \/ init' = "done" \/ init' = "failed"
    BY DEF ReportException, CheckConsent, Confirm, TellAnswer, ConfirmErrors, GetStatusOf, Load, InitStatuses, InitDone, BeginSetStatus,
           StatusUnchanged, Save, TrackItem, Request, SendUnchanged, StartForKey, StartEqatecMonitor, StartSession, UseMonitor,
           EndTry, Body, Reject
  <2> QED
    BY <1>1, <2>1 DEF AnalyticsShape
<1>4. UNCHANGED <<analyticsProcess, interrupts>>
  BY DEF ReportException, CheckConsent, Confirm, TellAnswer, ConfirmErrors, GetStatusOf, Load, InitStatuses, InitDone, BeginSetStatus,
         StatusUnchanged, Save, TrackItem, Request, SendUnchanged, StartForKey, StartEqatecMonitor, StartSession, UseMonitor,
         EndTry, Body
<1>5. CASE UNCHANGED <<statuses, stored, monitors, current, listening, wish, wished, sent>>
  BY <1>1, <1>2, <1>3, <1>4, <1>5 DEF AnalyticsShape
<1>6. CASE ReportException(c)
  <2>1. wished' \in [Callers -> SUBSET Settings]
    <3>1. wished' = [wished EXCEPT ![c] = {s \in Settings : wish[s]}] /\ wished \in [Callers -> SUBSET Settings]
      BY <1>1, <1>6 DEF ReportException, AnalyticsShape
    <3> QED
      BY <3>1
  <2> QED
    BY <1>1, <1>2, <1>3, <1>4, <1>6, <2>1 DEF ReportException, AnalyticsShape
<1>7. CASE Load(c)
  <2> DEFINE s == Head(todo[c]).setting
  <2>1. s \in Settings
    BY <1>1, <1>7, SegmentRuns, SegmentFields DEF Load
  <2>2. statuses' = [statuses EXCEPT ![s] = stored[s]] \/ statuses' = statuses
    BY <1>7 DEF Load
  <2> HIDE DEF s
  <2>3. statuses' \in [Settings -> {"unloaded", "notConfirmed", "enabled", "disabled"}]
    BY <1>1, <2>1, <2>2 DEF AnalyticsShape
  <2> QED
    BY <1>1, <1>2, <1>3, <1>4, <1>7, <2>3 DEF Load, StatusUnchanged, AnalyticsShape
<1>8. CASE BeginSetStatus(c)
  <2> DEFINE s == Head(todo[c]).setting
             on == Head(todo[c]).enabled
  <2>1. s \in Settings /\ on \in BOOLEAN
    BY <1>1, <1>8, SegmentRuns, SegmentFields DEF BeginSetStatus
  <2>2. /\ statuses' = [statuses EXCEPT ![s] = IF on THEN "enabled" ELSE "disabled"]
        /\ wish' = [wish EXCEPT ![s] = on]
        /\ wished' = [d \in Callers |-> IF on THEN wished[d] \cup {s} ELSE IF d = c THEN wished[d] \ {s} ELSE wished[d]]
    BY <1>8 DEF BeginSetStatus
  <2> HIDE DEF s, on
  <2>3. statuses' \in [Settings -> {"unloaded", "notConfirmed", "enabled", "disabled"}]
    BY <1>1, <2>1, <2>2 DEF AnalyticsShape
  <2>4. wish' \in [Settings -> BOOLEAN]
    BY <1>1, <2>1, <2>2 DEF AnalyticsShape
  <2>5. wished' \in [Callers -> SUBSET Settings]
    BY <1>1, <2>1, <2>2 DEF AnalyticsShape
  <2> QED
    BY <1>1, <1>2, <1>3, <1>4, <1>8, <2>3, <2>4, <2>5 DEF BeginSetStatus, StatusUnchanged, AnalyticsShape
<1>9. CASE Save(c)
  <2> DEFINE s == Head(todo[c]).setting
             on == Head(todo[c]).enabled
  <2>1. s \in Settings
    BY <1>1, <1>9, SegmentRuns, SegmentFields DEF Save
  <2>2. stored' = [stored EXCEPT ![s] = IF on THEN "enabled" ELSE "disabled"] \/ stored' = stored
    BY <1>9 DEF Save
  <2>3. TryStopEqatecMonitors \/ UNCHANGED <<monitors, current>>
    BY <1>9 DEF Save
  <2> HIDE DEF s, on
  <2>4. stored' \in [Settings -> {"notConfirmed", "enabled", "disabled"}]
    BY <1>1, <2>1, <2>2 DEF AnalyticsShape
  <2>5. monitors' \in Seq(Monitors) /\ current' \in [Keys -> 0 .. Len(monitors')]
    BY <1>1, <2>3, StopKeepsShape DEF AnalyticsShape
  <2> QED
    BY <1>1, <1>2, <1>3, <1>4, <1>9, <2>4, <2>5 DEF Save, AnalyticsShape
<1>10. CASE StartEqatecMonitor(c)
  <2>1. monitors' \in Seq(Monitors) /\ current' \in [Keys -> 0 .. Len(monitors')]
    <3> DEFINE key == todo[c][1].key
               new == [key |-> key, state |-> "created", kept |-> TRUE]
               last == Len(monitors) + 1
    <3>1. CASE monitors' = monitors /\ current' = current
      BY <1>1, <3>1 DEF AnalyticsShape
    <3>2. CASE key \in Keys /\ monitors' = Append(monitors, new) /\ current' = [current EXCEPT ![key] = last]
      <4>1. /\ monitors \in Seq(Monitors) /\ Len(monitors) \in Nat /\ current \in [Keys -> 0 .. Len(monitors)] /\ new \in Monitors
        BY <1>1, <3>2 DEF AnalyticsShape, Monitors
      <4> HIDE DEF new
      <4>2. monitors' \in Seq(Monitors) /\ Len(monitors') = last
        BY <3>2, <4>1
      <4>3. last \in 0 .. last /\ \A k \in Keys : current[k] \in 0 .. last
        BY <4>1
      <4> HIDE DEF last, key
      <4>4. current' \in [Keys -> 0 .. last]
        BY <3>2, <4>1, <4>3
      <4> QED
        BY <4>2, <4>4
    <3> QED
      BY <1>10, <3>1, <3>2, StartMonitorKeepsCalls
  <2> QED
    BY <1>1, <1>2, <1>3, <1>4, <1>10, <2>1 DEF StartEqatecMonitor, SendUnchanged, AnalyticsShape
<1>11. CASE StartSession(c)
  <2> DEFINE m == todo[c][1].monitor
  <2>1. m \in 1 .. Len(monitors) /\ Head(todo[c]) = todo[c][1]
    BY <1>1, <1>11, SessionKeepsCalls, SegmentRuns DEF StartSession
  <2>2. monitors' = [monitors EXCEPT ![m] = [monitors[m] EXCEPT !.state = "running"]] \/ monitors' = monitors
    BY <1>11, <2>1 DEF StartSession
  <2>3. monitors \in Seq(Monitors) /\ listening' \in BOOLEAN /\ current' = current
    BY <1>1, <1>11 DEF StartSession, SendUnchanged, AnalyticsShape
  <2> HIDE DEF m
  <2>4. monitors' \in Seq(Monitors) /\ Len(monitors') = Len(monitors)
    <3>1. monitors[m] \in Monitors
      BY <2>1, <2>3
    <3>2. [monitors[m] EXCEPT !.state = "running"] \in Monitors
      BY <3>1 DEF Monitors
    <3> QED
      BY <2>1, <2>2, <2>3, <3>2
  <2>5. current' \in [Keys -> 0 .. Len(monitors')]
    BY <1>1, <2>3, <2>4 DEF AnalyticsShape
  <2> QED
    BY <1>1, <1>2, <1>3, <1>4, <1>11, <2>3, <2>4, <2>5 DEF StartSession, SendUnchanged, AnalyticsShape
<1>12. CASE UseMonitor(c)
  <2>1. sent' \subseteq [item : Items, wanted : BOOLEAN, usage : BOOLEAN]
    <3>1. todo[c][1].item \in Items /\ Head(todo[c]) = todo[c][1]
      BY <1>1, <1>12, SegmentRuns, MayBeSent DEF UseMonitor, Sending
    <3> DEFINE item == todo[c][1].item
               b == item.setting \in wished[c]
               u == Usage \in wished[c]
    <3>2. sent' = sent \cup {[item |-> item, wanted |-> b, usage |-> u]}
      BY <1>12, <3>1 DEF UseMonitor
    <3>3. b \in BOOLEAN /\ u \in BOOLEAN
      OBVIOUS
    <3> HIDE DEF item, b, u
    <3>4. [item |-> item, wanted |-> b, usage |-> u] \in [item : Items, wanted : BOOLEAN, usage : BOOLEAN]
      BY <3>1, <3>3 DEF item
    <3> QED
      BY <1>1, <3>2, <3>4 DEF AnalyticsShape
  <2> QED
    BY <1>1, <1>2, <1>3, <1>4, <1>12, <2>1 DEF UseMonitor, SendUnchanged, AnalyticsShape
<1> QED
  BY <1>5, <1>6, <1>7, <1>8, <1>9, <1>10, <1>11, <1>12
     DEF CheckConsent, Confirm, TellAnswer, ConfirmErrors, GetStatusOf, InitStatuses, InitDone, StatusUnchanged, TrackItem, Request,
         SendUnchanged, StartForKey, EndTry, Body

\* What is handed to a monitor was wanted.
LEMMA ConsentStep ==
    ASSUME AnalyticsInv, NEW c \in Callers,
           \/ ReportException(c) \/ CheckConsent(c) \/ Confirm(c) \/ TellAnswer(c) \/ ConfirmErrors(c) \/ GetStatusOf(c) \/ Load(c)
           \/ InitStatuses(c) \/ InitDone(c) \/ BeginSetStatus(c) \/ Save(c) \/ TrackItem(c) \/ Request(c)
           \/ StartForKey(c) \/ StartEqatecMonitor(c) \/ StartSession(c) \/ UseMonitor(c) \/ EndTry(c) \/ Body(c)
    PROVE  ConsentRespected'
<1>1. AnalyticsShape /\ CallsInOrder /\ ConsentRespected
  BY DEF AnalyticsInv
<1>2. CASE sent' = sent
  BY <1>1, <1>2 DEF ConsentRespected
<1>3. CASE UseMonitor(c)
  <2>1. /\ todo[c][1].item.answer \/ todo[c][1].item.setting \in wished[c]
        /\ Head(todo[c]) = todo[c][1] /\ todo[c][1].item \in Items
    BY <1>1, <1>3, SegmentRuns, MayBeSent DEF UseMonitor, Sending
  <2>2. sent' = sent \cup {[item |-> todo[c][1].item, wanted |-> todo[c][1].item.setting \in wished[c], usage |-> Usage \in wished[c]]}
    BY <1>3, <2>1 DEF UseMonitor
  <2> DEFINE item == todo[c][1].item
             b == item.setting \in wished[c]
             u == Usage \in wished[c]
             x == [item |-> item, wanted |-> b, usage |-> u]
  <2>3. x.item = item /\ x.wanted = b /\ x.usage = u /\ (item.answer \/ b) /\ sent' = sent \cup {x}
    BY <2>1, <2>2
  <2>5. b => u \/ item.setting = Errors
    BY <2>1 DEF Items, Settings
  <2>4. IF x.item.version THEN x.usage \/ x.item.answer \/ (x.item.setting = Errors /\ x.wanted)
        ELSE x.item.answer \/ x.wanted
    <3> HIDE DEF item, b, u, x
    <3> QED
      BY <2>3, <2>5
  <2> HIDE DEF x
  <2> QED
    BY <1>1, <2>3, <2>4 DEF ConsentRespected
<1> QED
  BY <1>2, <1>3
     DEF ReportException, CheckConsent, Confirm, TellAnswer, ConfirmErrors, GetStatusOf, Load, InitStatuses, InitDone, BeginSetStatus,
         StatusUnchanged, Save, TrackItem, Request, SendUnchanged, StartForKey, StartEqatecMonitor, StartSession, EndTry, Body

\* The calls of the commands, as they begin.
LEMMA CommandCallsBegin ==
    ASSUME NEW call \in CommandCalls
    PROVE  /\ call \in Seq(Segments)
           /\ \A i \in DOMAIN call :
                 /\ call[i].do \in {"checkConsent", "initStatuses", "track", "endTry", "body", "getStatus", "setStatus"}
                 /\ TurnsOff(call[i]) => Awaits(call, i)
                 /\ call[i].do = "checkConsent" => i = 1 /\ \A j \in DOMAIN call : call[j].do # "setStatus"
<1>1. /\ [do |-> "checkConsent"] \in Segments /\ [do |-> "body"] \in Segments
      /\ \A s \in Settings : [do |-> "getStatus", setting |-> s] \in Segments
      /\ \A s \in Settings, on \in BOOLEAN : [do |-> "setStatus", setting |-> s, enabled |-> on] \in Segments
  BY DEF Segments
<1>2. CASE call = Do("checkConsent")
  BY <1>1, <1>2 DEF Do, TurnsOff
<1>3. CASE call = Track(Usage) \o Do("endTry")
  <2>1. call = <<[do |-> "initStatuses"], [do |-> "track", item |-> Tracking(Usage)], [do |-> "endTry"]>>
    BY <1>3, TrackSegments DEF Settings
  <2> QED
    BY <2>1, TrackSegments DEF Settings, TurnsOff
<1>4. CASE call = Do("checkConsent") \o Track(Usage) \o Do("body")
  <2>1. Do("checkConsent") \o Track(Usage)
          = <<[do |-> "checkConsent"], [do |-> "initStatuses"], [do |-> "track", item |-> Tracking(Usage)]>>
    BY TrackSegments, TupleOfOneAndTwo DEF Settings, Do
  <2>2. call = <<[do |-> "checkConsent"], [do |-> "initStatuses"], [do |-> "track", item |-> Tracking(Usage)], [do |-> "body"]>>
    BY <1>4, <2>1, TupleOfFour DEF Do
  <2> QED
    BY <1>1, <2>2, TrackSegments DEF Settings, TurnsOff
<1>5. ASSUME NEW s \in Settings, call = GetStatus(s) PROVE call = <<[do |-> "getStatus", setting |-> s]>>
  BY <1>5 DEF GetStatus
<1>6. ASSUME NEW s \in Settings, call = SetStatus(s, TRUE) \o Track(Usage)
      PROVE  call = <<[do |-> "setStatus", setting |-> s, enabled |-> TRUE], [do |-> "initStatuses"],
                      [do |-> "track", item |-> Tracking(Usage)]>>
  BY <1>6, TrackSegments, TupleOfOneAndTwo DEF Settings, SetStatus
<1>7. ASSUME NEW s \in Settings, call = Track(Usage) \o SetStatus(s, FALSE)
      PROVE  call = <<[do |-> "initStatuses"], [do |-> "track", item |-> Tracking(Usage)],
                      [do |-> "setStatus", setting |-> s, enabled |-> FALSE]>>
  BY <1>7, TrackSegments, TupleOfThree DEF Settings, SetStatus
<1>8. ASSUME NEW s \in Settings, call = GetStatus(s) \/ call = SetStatus(s, TRUE) \o Track(Usage)
      PROVE  /\ call \in Seq(Segments)
             /\ \A i \in DOMAIN call :
                   call[i].do \in {"initStatuses", "track", "getStatus", "setStatus"} /\ ~ TurnsOff(call[i])
  <2>1. CASE call = GetStatus(s)
    <3>1. call = <<[do |-> "getStatus", setting |-> s]>>
      BY <1>5, <2>1
    <3> QED
      BY <1>1, <3>1 DEF TurnsOff
  <2>2. CASE call = SetStatus(s, TRUE) \o Track(Usage)
    <3> DEFINE g == [do |-> "setStatus", setting |-> s, enabled |-> TRUE]
               h == [do |-> "initStatuses"]
               k == [do |-> "track", item |-> Tracking(Usage)]
    <3>1. call = <<g, h, k>>
      BY <1>6, <2>2
    <3>2. g \in Segments /\ g.do = "setStatus" /\ ~ TurnsOff(g)
      BY <1>1 DEF TurnsOff
    <3>3. h \in Segments /\ k \in Segments /\ h.do = "initStatuses" /\ k.do = "track"
      BY TrackSegments DEF Settings
    <3> HIDE DEF g, h, k
    <3>4. call \in Seq(Segments) /\ \A i \in DOMAIN call : call[i] = g \/ call[i] = h \/ call[i] = k
      BY <3>1, <3>2, <3>3
    <3> QED
      BY <3>2, <3>3, <3>4 DEF TurnsOff
  <2> QED
    BY <1>8, <2>1, <2>2
<1>9. ASSUME NEW s \in Settings, call = Track(Usage) \o SetStatus(s, FALSE)
      PROVE  /\ call \in Seq(Segments)
             /\ \A i \in DOMAIN call :
                   call[i].do \in {"initStatuses", "track", "setStatus"} /\ (TurnsOff(call[i]) => Awaits(call, i))
  <2>1. /\ call \in Seq(Segments) /\ DOMAIN call = 1 .. 3
        /\ call[1].do = "initStatuses" /\ call[2].do = "track" /\ call[3].do = "setStatus"
    <3> DEFINE g == [do |-> "setStatus", setting |-> s, enabled |-> FALSE]
               h == [do |-> "initStatuses"]
               k == [do |-> "track", item |-> Tracking(Usage)]
    <3>1. call = <<h, k, g>>
      BY <1>7, <1>9
    <3>2. g \in Segments /\ g.do = "setStatus"
      BY <1>1
    <3>3. h \in Segments /\ k \in Segments /\ h.do = "initStatuses" /\ k.do = "track"
      BY TrackSegments DEF Settings
    <3> HIDE DEF g, h, k
    <3> QED
      BY <3>1, <3>2, <3>3
  <2>2. Awaits(call, 3)
    BY <2>1 DEF Awaits, Initializing
  <2> QED
    BY <2>1, <2>2 DEF TurnsOff
<1> QED
  BY <1>2, <1>3, <1>4, <1>8, <1>9 DEF CommandCalls

LEMMA AnalyticsBegins == AnalyticsInit => AnalyticsInv
<1> SUFFICES ASSUME AnalyticsInit PROVE AnalyticsInv
  OBVIOUS
<1>1. PICK call \in CommandCalls : todo = [c \in Callers |-> IF c = "command" THEN call ELSE Do("report")]
  BY DEF AnalyticsInit
<1>2. /\ statuses = [s \in Settings |-> "unloaded"]
      /\ stored \in [Settings -> {"notConfirmed", "enabled", "disabled"}]
      /\ init = "no" /\ monitors = <<>> /\ current = [k \in Keys |-> 0] /\ listening = FALSE
      /\ analyticsProcess = "runs" /\ interrupts = 0
      /\ wish = [s \in Settings |-> stored[s] = "enabled"]
      /\ wished = [c \in Callers |-> {s \in Settings : wish[s]}]
      /\ sent = {}
  BY DEF AnalyticsInit
<1>3. /\ call \in Seq(Segments)
      /\ \A i \in DOMAIN call :
            /\ call[i].do \in {"checkConsent", "initStatuses", "track", "endTry", "body", "getStatus", "setStatus"}
            /\ TurnsOff(call[i]) => Awaits(call, i)
            /\ call[i].do = "checkConsent" => i = 1 /\ \A j \in DOMAIN call : call[j].do # "setStatus"
  BY CommandCallsBegin
<1>4. Do("report") \in Seq(Segments) /\ DOMAIN Do("report") = {1} /\ Do("report")[1].do = "report"
  BY DEF Do, Segments
<1>5. ASSUME NEW c \in Callers
      PROVE  /\ todo[c] \in Seq(Segments)
             /\ \A i \in DOMAIN todo[c] :
                   /\ todo[c][i].do \in {"checkConsent", "initStatuses", "track", "endTry", "body", "getStatus", "setStatus", "report"}
                   /\ c # "command" => todo[c][i].do = "report"
                   /\ TurnsOff(todo[c][i]) => Awaits(todo[c], i)
                   /\ \A j \in i + 1 .. Len(todo[c]) : todo[c][j].do \notin NotAfter(todo[c][i])
  <2>1. CASE c = "command"
    <3>1. ASSUME NEW i \in DOMAIN call, NEW j \in i + 1 .. Len(call) PROVE call[j].do \notin NotAfter(call[i])
      <4>1. i \in Nat /\ i >= 1 /\ Len(call) \in Nat
        BY <1>3
      <4>2. j \in DOMAIN call /\ j # 1
        BY <1>3, <4>1
      <4>3. call[j].do \notin Asks
        BY <1>3, <4>2 DEF Asks
      <4>4. NotAfter(call[i]) \subseteq Asks
        BY DEF NotAfter, AsksFor, Asks
      <4> QED
        BY <4>3, <4>4
    <3>2. todo[c] = call
      BY <1>1, <2>1
    <3> QED
      BY <1>3, <2>1, <3>1, <3>2
  <2>2. CASE c # "command"
    <3>1. \A i \in DOMAIN Do("report") : NotAfter(Do("report")[i]) = {}
      BY <1>4 DEF NotAfter, Asks
    <3>2. todo[c] = Do("report")
      BY <1>1, <2>2
    <3> QED
      BY <1>4, <2>2, <3>1, <3>2 DEF TurnsOff
  <2> QED
    BY <2>1, <2>2
<1>6. AnalyticsShape
  <2>1. todo \in [Callers -> Seq(Segments)]
    BY <1>1, <1>5
  <2>2. monitors \in Seq(Monitors) /\ current \in [Keys -> 0 .. Len(monitors)]
    BY <1>2
  <2>3. interrupts \in 0 .. MaxInterrupts
    BY <1>2, AnalyticsAssumption
  <2>4. /\ statuses \in [Settings -> {"unloaded", "notConfirmed", "enabled", "disabled"}]
        /\ wish \in [Settings -> BOOLEAN] /\ wished \in [Callers -> SUBSET Settings]
    BY <1>2
  <2> QED
    BY <1>2, <2>1, <2>2, <2>3, <2>4 DEF AnalyticsShape
<1>7. CallsInOrder
  <2> SUFFICES ASSUME NEW c \in Callers, NEW i \in DOMAIN todo[c]
               PROVE  InOrderAt(todo[c], i, c, wished[c], Len(monitors), init, stored)
    BY <1>5 DEF CallsInOrder, InOrder
  <2> QED
    BY <1>5 DEF InOrderAt, Tracks, Sending, OnlyCommand
<1>8. OneInitializes
  BY <1>5 DEF OneInitializes
<1>9. StatusesFollowWishes
  BY <1>2, <1>5 DEF StatusesFollowWishes, Callers
<1>10. MonitorsAreKept
  BY <1>2, <1>5 DEF MonitorsAreKept
<1> QED
  BY <1>2, <1>6, <1>7, <1>8, <1>9, <1>10 DEF AnalyticsInv, ConsentRespected

LEMMA AnalyticsStep == AnalyticsInv /\ [AnalyticsNext]_analyticsVars => AnalyticsInv'
<1> SUFFICES ASSUME AnalyticsInv, [AnalyticsNext]_analyticsVars PROVE AnalyticsInv'
  OBVIOUS
<1>1. ASSUME NEW c \in Callers,
           \/ ReportException(c) \/ CheckConsent(c) \/ Confirm(c) \/ TellAnswer(c) \/ ConfirmErrors(c) \/ GetStatusOf(c) \/ Load(c)
           \/ InitStatuses(c) \/ InitDone(c) \/ BeginSetStatus(c) \/ Save(c) \/ TrackItem(c) \/ Request(c)
           \/ StartForKey(c) \/ StartEqatecMonitor(c) \/ StartSession(c) \/ UseMonitor(c) \/ EndTry(c) \/ Body(c)
      PROVE  AnalyticsInv'
  <2>1. CallsInOrder' /\ OneInitializes'
    BY <1>1, CallerKeepsCalls DEF CallsStep
  <2>2. AnalyticsShape'
    BY <1>1, ShapeStep
  <2>3. StatusesFollowWishes'
    BY <1>1, StatusesStep
  <2>4. MonitorsAreKept'
    BY <1>1, MonitorsStep
  <2>5. ConsentRespected'
    BY <1>1, ConsentStep
  <2> QED
    BY <2>1, <2>2, <2>3, <2>4, <2>5 DEF AnalyticsInv
<1>2. CASE Exit \/ Interrupt
  <2>1. AnalyticsShape /\ StatusesFollowWishes /\ ConsentRespected
    BY DEF AnalyticsInv
  <2>2. UNCHANGED <<todo, statuses, stored, init, listening, wish, wished, sent>> /\ (TryStopEqatecMonitors \/ UNCHANGED <<monitors, current>>)
    BY <1>2 DEF Exit, Interrupt
  <2>3. /\ monitors' \in Seq(Monitors) /\ current' \in [Keys -> 0 .. Len(monitors')] /\ Len(monitors') = Len(monitors)
    BY <2>1, <2>2, StopKeepsShape DEF AnalyticsShape
  <2>4. CallsStep /\ NothingBegins
    BY <2>2, <2>3, ProcessKeepsCalls
  <2>5. analyticsProcess' \in {"runs", "ended"} /\ interrupts' \in 0 .. MaxInterrupts
    BY <1>2, <2>1, AnalyticsAssumption DEF AnalyticsShape, Exit, Interrupt
  <2>6. AnalyticsShape'
    BY <2>1, <2>2, <2>3, <2>4, <2>5 DEF AnalyticsShape, CallsStep
  <2>7. StatusesFollowWishes'
    BY <2>1, <2>2, <2>4, StatusesRemain DEF NothingBegins, CallsStep
  <2>8. MonitorsAreKept'
    BY <1>2, ProcessKeepsMonitors
  <2> QED
    BY <2>1, <2>2, <2>4, <2>6, <2>7, <2>8 DEF AnalyticsInv, CallsStep, ConsentRespected
<1>3. CASE UNCHANGED analyticsVars
  <2>1. UNCHANGED <<todo, statuses, stored, init, monitors, current, listening, analyticsProcess, interrupts, wish, wished, sent>>
    BY <1>3 DEF analyticsVars
  <2>2. CallsStep /\ NothingBegins
    BY <2>1, ProcessKeepsCalls
  <2>3. AnalyticsShape' /\ StatusesFollowWishes' /\ MonitorsAreKept' /\ ConsentRespected'
    <3>1. AnalyticsShape /\ StatusesFollowWishes /\ MonitorsAreKept /\ ConsentRespected
      BY DEF AnalyticsInv
    <3>2. AnalyticsShape'
      BY <2>1, <3>1 DEF AnalyticsShape
    <3>3. StatusesFollowWishes'
      BY <2>1, <2>2, <3>1, StatusesRemain DEF NothingBegins, CallsStep
    <3>4. MonitorsAreKept'
      BY <2>1, <2>2, <3>1, MonitorsRemain DEF NothingBegins
    <3> QED
      BY <2>1, <3>1, <3>2, <3>3, <3>4 DEF ConsentRespected
  <2> QED
    BY <2>2, <2>3 DEF AnalyticsInv, CallsStep
<1> QED
  BY <1>1, <1>2, <1>3 DEF AnalyticsNext

\* The inductive invariant of the analytics.
THEOREM AnalyticsInvariant == AnalyticsSpec => []AnalyticsInv
<1> QED
  BY AnalyticsBegins, AnalyticsStep, PTL DEF AnalyticsSpec

\* The types of the analytics; what a caller still has to do names monitors that exist.
THEOREM AnalyticsTypeCorrect == AnalyticsSpec => []AnalyticsTypeOK
<1>1. AnalyticsInv => AnalyticsTypeOK
  <2> SUFFICES ASSUME AnalyticsInv PROVE AnalyticsTypeOK
    OBVIOUS
  <2>1. AnalyticsShape /\ CallsInOrder
    BY DEF AnalyticsInv
  <2>2. \A m \in DOMAIN monitors : monitors[m] \in Monitors
    BY <2>1 DEF AnalyticsShape
  <2>3. \A c \in Callers : \A i \in DOMAIN todo[c] :
          todo[c][i].do \in {"use", "start"} => todo[c][i].monitor \in DOMAIN monitors
    BY <2>1 DEF CallsInOrder, InOrder, InOrderAt, AnalyticsShape
  <2> QED
    BY <2>1, <2>2, <2>3 DEF AnalyticsShape, Monitors, AnalyticsTypeOK
<1> QED
  BY <1>1, AnalyticsInvariant, PTL

\* The command and the reports of uncaught exceptions, interleaved at every await:
\* what reaches a monitor is the answer to the question, or was wanted by the user
\* at some time since the call of its sender began; the version of node, a feature of
\* its own (analytics-service-base.ts:305-308), goes while features are not wanted only
\* with a session that was started for the answer or for a wanted exception.
THEOREM AnalyticsConsentRespected == AnalyticsSpec => []ConsentRespected
<1>1. AnalyticsInv => ConsentRespected
  BY DEF AnalyticsInv
<1> QED
  BY <1>1, AnalyticsInvariant, PTL

\* tryStopEqatecMonitors misses no session: a monitor that runs and was not stopped
\* before it was started is the one of its key, and none runs when the process has
\* ended by itself.
THEOREM AnalyticsMonitorsAreStopped == AnalyticsSpec => []MonitorsAreStopped
<1>1. AnalyticsInv => MonitorsAreStopped
  BY DEF AnalyticsInv, MonitorsAreKept, MonitorsAreStopped
<1> QED
  BY <1>1, AnalyticsInvariant, PTL

-----------------------------------------------------------------------------
(***************************************************************************)
(* The files of a project.  The directory and the first part of the name   *)
(* of a file are never changed, so that the files that may be renamed to   *)
(* each other are those that agree in both; where each of them has one tag *)
(* at most, one is the other without its tag.                              *)
(***************************************************************************)
FileNames == [dir : Seq(DOMAIN InLowerCase), name : Seq(DOMAIN InLowerCase) \ {<<>>}]
TagValues == PlatformNames \cup Configurations
NameTags(f) == Tags(f.name, TagValues)

\* In a directory without a tag, and like none that has several.
Orderly(f) == Tags(f.dir, TagValues) = {} /\ Alone(f)


\* A name without one of its inner parts.
LEMMA WithoutAPart ==
    ASSUME NEW S, NEW s \in Seq(S), NEW i \in 2 .. Len(s) - 1
    PROVE  /\ RemoveAt(s, i) \in Seq(S) /\ Len(RemoveAt(s, i)) = Len(s) - 1
           /\ RemoveAt(s, i)[1] = s[1]
           /\ RemoveAt(s, i) # <<>> /\ Last(RemoveAt(s, i)) = Last(s)
           /\ \A j \in 2 .. Len(s) - 2 : RemoveAt(s, i)[j] = IF j < i THEN s[j] ELSE s[j + 1]
<1> DEFINE p == SubSeq(s, 1, i - 1)
           q == SubSeq(s, i + 1, Len(s))
<1>1. Len(s) \in Nat /\ i \in Nat /\ 2 <= i /\ i <= Len(s) - 1
  OBVIOUS
<1>2. p \in Seq(S) /\ Len(p) = i - 1 /\ \A j \in 1 .. i - 1 : p[j] = s[j]
  <2>1. 1 \in 1 .. Len(s) + 1 /\ i - 1 \in 0 .. Len(s)
    BY <1>1
  <2> QED
    BY <1>1, <2>1, SubSeqProperties
<1>3. q \in Seq(S) /\ Len(q) = Len(s) - i /\ \A j \in 1 .. Len(s) - i : q[j] = s[i + j]
  <2>1. i + 1 \in 1 .. Len(s) + 1 /\ Len(s) \in 0 .. Len(s)
    BY <1>1
  <2>2. /\ q \in Seq(S)
        /\ Len(q) = Len(s) - (i + 1) + 1
        /\ \A j \in 1 .. Len(s) - (i + 1) + 1 : q[j] = s[i + 1 + j - 1]
    BY <1>1, <2>1, SubSeqProperties
  <2> QED
    BY <1>1, <2>2
<1> HIDE DEF p, q
<1> DEFINE n == p \o q
<1>4. /\ n \in Seq(S) /\ Len(n) = Len(s) - 1
      /\ \A j \in 1 .. Len(s) - 1 : n[j] = IF j <= i - 1 THEN p[j] ELSE q[j - (i - 1)]
  <2>1. /\ n \in Seq(S) /\ Len(n) = Len(p) + Len(q)
        /\ \A j \in 1 .. Len(p) + Len(q) : n[j] = IF j <= Len(p) THEN p[j] ELSE q[j - Len(p)]
    BY <1>2, <1>3, ConcatProperties
  <2>2. Len(p) + Len(q) = Len(s) - 1
    BY <1>1, <1>2, <1>3
  <2> HIDE DEF n
  <2> QED
    BY <1>2, <2>1, <2>2
<1>5. RemoveAt(s, i) = n
  BY DEF RemoveAt, p, q
<1>6. \A j \in 1 .. Len(s) - 1 : n[j] = IF j < i THEN s[j] ELSE s[j + 1]
  BY <1>1, <1>2, <1>3, <1>4
<1> HIDE DEF n
<1>7. n # <<>> /\ Last(n) = n[Len(s) - 1] /\ Last(s) = s[Len(s)] /\ n[Len(s) - 1] = s[Len(s)]
  BY <1>1, <1>4, <1>6 DEF Last
<1> QED
  BY <1>1, <1>4, <1>5, <1>6, <1>7

\* The places of tags are numbers between two others.
LEMMA TagPlaces ==
    ASSUME NEW s \in Seq(DOMAIN InLowerCase), NEW values
    PROVE  /\ Tags(s, values) \in SUBSET Nat /\ Tags(s, values) \subseteq 2 .. Len(s) - 1
           /\ Tags(s, values) # {} => Min(Tags(s, values)) \in Tags(s, values)
           /\ \A v \in SUBSET values : Tags(s, v) \subseteq Tags(s, values)
<1>1. Tags(s, values) \in SUBSET Nat /\ Tags(s, values) \subseteq 2 .. Len(s) - 1
  BY DEF Tags
<1>2. Tags(s, values) # {} => Min(Tags(s, values)) \in Tags(s, values)
  BY <1>1, SmallestNumber
<1> QED
  BY <1>1, <1>2 DEF Tags

\* What a file is called on the device keeps its directory, the first part of its
\* name and the last.
LEMMA NameOnDevice ==
    ASSUME NEW f \in FileNames
    PROVE  /\ OnDevice(f) \in FileNames /\ OnDevice(f).dir = f.dir /\ OnDevice(f).name[1] = f.name[1]
           /\ HasLinks(OnDevice(f)) <=> HasLinks(f)
           /\ OnDevice(f) = [dir |-> f.dir, name |-> ProjectFileInfo(f).name]
<1>1. f.name \in Seq(DOMAIN InLowerCase) /\ f.name # <<>> /\ f.dir \in Seq(DOMAIN InLowerCase) /\ f = [dir |-> f.dir, name |-> f.name]
  BY DEF FileNames
<1> DEFINE Kept(name) == name \in Seq(DOMAIN InLowerCase) /\ name # <<>> /\ name[1] = f.name[1] /\ Last(name) = Last(f.name)
<1>2. ASSUME NEW values, NEW value, NEW info \in ParseFile(f, values, value) PROVE Kept(info.name)
  <2>1. CASE info.name = f.name
    BY <1>1, <2>1
  <2>2. CASE Tags(f.name, values) # {} /\ info.name = RemoveAt(f.name, Min(Tags(f.name, values)))
    <3> DEFINE i == Min(Tags(f.name, values))
    <3>1. i \in 2 .. Len(f.name) - 1
      BY <1>1, <2>2, TagPlaces
    <3> HIDE DEF i
    <3> QED
      BY <1>1, <2>2, <3>1, WithoutAPart DEF i
  <2> QED
    BY <1>2, <2>1, <2>2 DEF ParseFile
<1>3. Kept(ProjectFileInfo(f).name)
  <2> DEFINE p == ParseFile(f, PlatformNames, target.platform)
             c == ParseFile(f, Configurations, target.configuration)
             S == IF p # {} THEN p ELSE IF c # {} THEN c ELSE {[name |-> f.name, included |-> TRUE]}
  <2>1. \A info \in p \cup c : Kept(info.name)
    BY <1>2
  <2>2. S # {} /\ \A info \in S : Kept(info.name)
    <3>1. Kept(f.name)
      BY <1>1
    <3>2. CASE S = {[name |-> f.name, included |-> TRUE]}
      <4>1. \A info \in {[name |-> f.name, included |-> TRUE]} : info.name = f.name
        OBVIOUS
      <4> HIDE DEF S, Kept
      <4> QED
        BY <3>1, <3>2, <4>1
    <3>3. CASE S # {} /\ S \subseteq p \cup c
      <4> HIDE DEF S, p, c, Kept
      <4> QED
        BY <2>1, <3>3
    <3>4. S = {[name |-> f.name, included |-> TRUE]} \/ (S # {} /\ S \subseteq p \cup c)
      <4> HIDE DEF p, c, Kept
      <4> QED
        OBVIOUS
    <3> HIDE DEF S, p, c, Kept
    <3> QED
      BY <3>2, <3>3, <3>4
  <2>3. ProjectFileInfo(f) = CHOOSE info \in S : TRUE
    BY DEF ProjectFileInfo
  <2> HIDE DEF S, Kept
  <2> QED
    BY <2>2, <2>3
<1>4. OnDevice(f) = [dir |-> f.dir, name |-> ProjectFileInfo(f).name]
  BY <1>1 DEF OnDevice
<1> DEFINE name == ProjectFileInfo(f).name
<1> HIDE DEF name
<1>5. [dir |-> f.dir, name |-> name] \in FileNames
  BY <1>1, <1>3 DEF FileNames, name
<1> QED
  BY <1>3, <1>4, <1>5 DEF HasLinks, name

\* One tag at most in all is one at most in the name when the directory has none.
LEMMA FewTags ==
    ASSUME NEW f \in FileNames, Tags(f.dir, TagValues) = {}
    PROVE  /\ AllTags(f) = {<<"name", i>> : i \in NameTags(f)}
           /\ Cardinality(AllTags(f)) <= 1 <=> NameTags(f) = {} \/ \E i : NameTags(f) = {i}
           /\ Cardinality(AllTags(f)) = 1 <=> \E i : NameTags(f) = {i}
<1> DEFINE T == AllTags(f)
<1>1. f.name \in Seq(DOMAIN InLowerCase)
  BY DEF FileNames
<1>2. T = {<<"name", i>> : i \in NameTags(f)}
  BY DEF AllTags, NameTags, TagValues
<1>3. IsFiniteSet(T)
  <2> DEFINE n == Len(f.name)
             all == {"name"} \X (1 .. n)
  <2>1. n \in Int /\ 1 \in Int
    BY <1>1
  <2>2. IsFiniteSet(1 .. n)
    BY <2>1, FS_Interval
  <2>3. IsFiniteSet({"name"})
    BY FS_Singleton
  <2>4. IsFiniteSet(all)
    BY <2>2, <2>3, FS_Product
  <2>5. NameTags(f) \subseteq 1 .. n
    BY <2>1 DEF NameTags, Tags
  <2>6. T \in SUBSET all
    BY <1>2, <2>5
  <2> HIDE DEF all, T
  <2> QED
    BY <2>4, <2>6, FS_Subset
<1>4. CASE NameTags(f) = {}
  <2>1. T = {}
    BY <1>2, <1>4
  <2>2. Cardinality(T) = 0
    BY <2>1, FS_EmptySet
  <2> QED
    BY <1>2, <1>4, <2>2
<1>5. CASE \E i : NameTags(f) = {i}
  <2>1. PICK i : NameTags(f) = {i}
    BY <1>5
  <2> DEFINE x == <<"name", i>>
  <2>2. T = {x}
    BY <1>2, <2>1
  <2> HIDE DEF x
  <2>3. Cardinality({x}) = 1
    BY FS_Singleton
  <2>4. Cardinality(AllTags(f)) = 1
    BY <2>2, <2>3
  <2>5. Cardinality(AllTags(f)) <= 1
    BY <2>4
  <2>6. \E j : NameTags(f) = {j}
    BY <2>1
  <2> QED
    BY <1>2, <2>4, <2>5, <2>6
<1>6. CASE NameTags(f) # {} /\ ~ \E i : NameTags(f) = {i}
  <2>1. PICK i, j \in NameTags(f) : i # j
    BY <1>6
  <2> DEFINE x == <<"name", i>>
             y == <<"name", j>>
             X == {x}
  <2>2. x # y /\ x \in T /\ y \in T
    BY <1>2, <2>1
  <2> HIDE DEF x, y, T
  <2>3. IsFiniteSet(X) /\ Cardinality(X) = 1
    BY FS_Singleton
  <2>4. y \notin X /\ X \cup {y} \in SUBSET T
    BY <2>2
  <2> HIDE DEF X
  <2>5. Cardinality(X \cup {y}) = 2
    <3>1. Cardinality(X \cup {y}) = IF y \in X THEN Cardinality(X) ELSE Cardinality(X) + 1
      BY ONLY <2>3, FS_AddElement
    <3> QED
      BY <2>3, <2>4, <3>1
  <2>6. Cardinality(X \cup {y}) <= Cardinality(T) /\ Cardinality(T) \in Nat
    BY <1>3, <2>4, FS_Subset, FS_CardinalityType
  <2>7. ~ (Cardinality(T) <= 1) /\ Cardinality(T) # 1
    BY <2>5, <2>6
  <2> QED
    BY <1>2, <1>6, <2>7 DEF T
<1> QED
  BY <1>4, <1>5, <1>6

\* A file without a tag is for every target, under its own name.
LEMMA WithoutATag ==
    ASSUME NEW f \in FileNames, Tags(f.dir, TagValues) = {}, NameTags(f) = {}
    PROVE  Common(f) = f /\ OnDevice(f) = f /\ ProjectFileInfo(f).included /\ Cardinality(AllTags(f)) <= 1
<1>1. f.name \in Seq(DOMAIN InLowerCase) /\ f.dir \in Seq(DOMAIN InLowerCase) /\ f = [dir |-> f.dir, name |-> f.name]
  BY DEF FileNames
<1>2. Common(f) = f /\ Cardinality(AllTags(f)) <= 1
  BY FewTags DEF Common
<1>3. \A v : v \in {PlatformNames, Configurations} => Tags(f.dir, v) = {} /\ Tags(f.name, v) = {}
  BY <1>1, TagPlaces DEF NameTags, TagValues
<1>4. \A value : ParseFile(f, PlatformNames, value) = {} /\ ParseFile(f, Configurations, value) = {}
  BY <1>3 DEF ParseFile
<1>5. ProjectFileInfo(f) = [name |-> f.name, included |-> TRUE]
  <2> DEFINE info == [name |-> f.name, included |-> TRUE]
  <2>1. ProjectFileInfo(f) = CHOOSE x \in {info} : TRUE
    BY <1>4 DEF ProjectFileInfo
  <2> HIDE DEF info
  <2>2. ProjectFileInfo(f) = info
    BY <2>1
  <2> QED
    BY <2>2 DEF info
<1>6. ProjectFileInfo(f).included /\ ProjectFileInfo(f).name = f.name
  BY <1>5
<1> QED
  BY <1>1, <1>2, <1>6, NameOnDevice

\* One with a tag is for the target that has it, under the name without it.
LEMMA WithOneTag ==
    ASSUME NEW f \in FileNames, Tags(f.dir, TagValues) = {}, NEW i, NameTags(f) = {i}, target \in Targets
    PROVE  /\ Common(f) = OnDevice(f) /\ Common(f) # f
           /\ Common(f) \in FileNames /\ NameTags(Common(f)) = {}
           /\ Common(f).dir = f.dir /\ Common(f).name[1] = f.name[1]
           /\ ProjectFileInfo(f).included <=> ItsTag(f) \in {target.platform, target.configuration}
<1>1. f.name \in Seq(DOMAIN InLowerCase) /\ f.dir \in Seq(DOMAIN InLowerCase) /\ f = [dir |-> f.dir, name |-> f.name]
  BY DEF FileNames
<1> DEFINE name == RemoveAt(f.name, i)
           tag == InLowerCase[f.name[i]]
<1>2. i \in 2 .. Len(f.name) - 1 /\ i \in Nat /\ tag \in TagValues
  BY <1>1 DEF NameTags, Tags
<1>3. Min({i}) = i
  <2>1. {i} \in SUBSET Nat /\ {i} # {}
    BY <1>2
  <2> QED
    BY <2>1, SmallestNumber
<1>4. /\ name \in Seq(DOMAIN InLowerCase) /\ Len(name) = Len(f.name) - 1 /\ name[1] = f.name[1] /\ name # <<>>
      /\ \A j \in 2 .. Len(f.name) - 2 : name[j] = IF j < i THEN f.name[j] ELSE f.name[j + 1]
  BY <1>1, <1>2, WithoutAPart
<1>5. Common(f) = [dir |-> f.dir, name |-> name] /\ ItsTag(f) = tag
  BY <1>1, <1>3, FewTags DEF Common, ItsTag, NameTags, TagValues
<1> DEFINE info(v) == [name |-> name, included |-> tag = v]
<1>6. ASSUME NEW v \in SUBSET TagValues, NEW value
      PROVE  ParseFile(f, v, value) = IF tag \in v THEN {info(value)} ELSE {}
  <2>1. Tags(f.dir, v) = {}
    BY <1>1, TagPlaces
  <2>2. Tags(f.name, v) = IF tag \in v THEN {i} ELSE {}
    BY <1>1, TagPlaces DEF NameTags, Tags
  <2> QED
    BY <1>3, <2>1, <2>2 DEF ParseFile
<1> DEFINE value == IF tag \in PlatformNames THEN target.platform ELSE target.configuration
<1>7. ProjectFileInfo(f) = info(value)
  <2>1. ParseFile(f, PlatformNames, target.platform) = IF tag \in PlatformNames THEN {info(target.platform)} ELSE {}
    BY <1>6 DEF TagValues
  <2>2. ParseFile(f, Configurations, target.configuration) = IF tag \in Configurations THEN {info(target.configuration)} ELSE {}
    BY <1>6 DEF TagValues
  <2> DEFINE x == info(value)
  <2>3. ProjectFileInfo(f) = CHOOSE y \in {x} : TRUE
    <3>1. CASE tag \in PlatformNames
      <4>1. ParseFile(f, PlatformNames, target.platform) = {x} /\ {x} # {}
        BY <2>1, <3>1
      <4> HIDE DEF x
      <4> QED
        BY <4>1 DEF ProjectFileInfo
    <3>2. CASE tag \notin PlatformNames
      <4>1. ParseFile(f, PlatformNames, target.platform) = {}
        BY <2>1, <3>2
      <4>2. ParseFile(f, Configurations, target.configuration) = {x} /\ {x} # {}
        BY <1>2, <2>2, <3>2 DEF TagValues
      <4> HIDE DEF x
      <4> QED
        BY <4>1, <4>2 DEF ProjectFileInfo
    <3> QED
      BY <3>1, <3>2
  <2> HIDE DEF x
  <2>4. ProjectFileInfo(f) = x
    BY <2>3
  <2> QED
    BY <2>4 DEF x
<1>8. OnDevice(f) = [dir |-> f.dir, name |-> name]
  <2>1. ProjectFileInfo(f).name = name
    BY <1>7
  <2> QED
    BY <2>1, NameOnDevice
<1>9. ProjectFileInfo(f).included <=> tag \in {target.platform, target.configuration}
  <2> DEFINE b == tag = value
  <2>1. ProjectFileInfo(f).included = b
    <3> DEFINE x == [name |-> name, included |-> b]
    <3>1. ProjectFileInfo(f) = x
      BY <1>7
    <3> HIDE DEF b
    <3>2. x.included = b
      OBVIOUS
    <3> HIDE DEF x
    <3> QED
      BY <3>1, <3>2
  <2>2. target.platform \in PlatformNames /\ target.configuration \in Configurations
    BY FilesAssumption DEF Targets
  <2>3. b <=> tag \in {target.platform, target.configuration}
    BY <2>2, FilesAssumption
  <2> HIDE DEF b
  <2> QED
    BY <2>1, <2>3
<1> DEFINE n == [dir |-> f.dir, name |-> name]
<1>10. n \in FileNames /\ n # f /\ n.dir = f.dir /\ n.name[1] = f.name[1]
  <2>1. name # f.name
    BY <1>1, <1>4
  <2> HIDE DEF name
  <2> QED
    BY <1>1, <1>4, <2>1 DEF FileNames
<1>11. NameTags(n) = {}
  <2>1. n.name = name
    BY DEF n
  <2>2. ASSUME NEW j \in 2 .. Len(name) - 1, InLowerCase[name[j]] \in TagValues PROVE FALSE
    <3>1. j \in 2 .. Len(f.name) - 2 /\ Len(f.name) \in Nat
      BY <1>1, <1>4, <2>2
    <3>2. name[j] = IF j < i THEN f.name[j] ELSE f.name[j + 1]
      BY <1>4, <3>1
    <3>3. j \in 2 .. Len(f.name) - 1 /\ j + 1 \in 2 .. Len(f.name) - 1
      BY <3>1
    <3>4. j \in NameTags(f) \/ (j + 1 \in NameTags(f) /\ ~ (j < i))
      BY <2>2, <3>2, <3>3 DEF NameTags, Tags
    <3>5. j = i /\ j < i
      BY <1>2, <2>2, <3>2, <3>3, <3>1, <3>4 DEF NameTags, Tags
    <3> QED
      BY <1>2, <3>5
  <2> HIDE DEF name, n
  <2> QED
    BY <2>1, <2>2 DEF NameTags, Tags
<1> HIDE DEF n
<1>12. Common(f) = n /\ OnDevice(f) = n
  BY <1>5, <1>8 DEF n
<1> QED
  BY <1>5, <1>9, <1>10, <1>11, <1>12

Renaming == {"fixes", "fixing", "writes", "writing", "deletes"}

Contents == [from : FileNames, link : FileNames, bytes : {"whole", "altered", "torn"}]

FilesShape ==
    /\ original \subseteq Files
    /\ target \in Targets
    /\ disk \in [DOMAIN disk -> Contents]
    /\ DOMAIN disk \subseteq FileNames
    /\ \A h \in DOMAIN disk : disk[h].link.dir = h.dir
    /\ left \subseteq DOMAIN disk /\ cut \subseteq original
    /\ doing \in [file : FileNames \cup {None}, step : {"idle", "next", "prepared", "killed"} \cup Renaming,
                  text : Contents \cup {NoText}]

\* Where what is in a file is from.
DiskIsDerived ==
    \A h \in DOMAIN disk :
        LET o == disk[h].from
        IN  /\ o \in original /\ o.dir = h.dir /\ o.name[1] = h.name[1]
            /\ Orderly(h) => h = o \/ (NameTags(h) = {} /\ o \in VariantsOf(h))

\* What a file that names others names.
LinksAreKept ==
    \A h \in DOMAIN disk : HasLinks(h) => disk[h].link \in {h, OnDevice(h)}

\* What was in a file when it was truncated, and no kill is known to have lost it.
LostAt(h) == disk[h].bytes = "torn" /\ disk[h].from \notin cut

InHand(h) == doing.step = "fixing" /\ doing.file = h

\* What has been done with the file in hand.
HandIsKept ==
    /\ doing.step \notin Renaming => doing.file = None
    /\ doing.step = "prepared" => left = {}
    /\ doing.step \in Renaming =>
          LET d == doing.file
              n == OnDevice(d)
          IN  /\ d \in DOMAIN disk /\ d \notin left /\ n # d /\ ProjectFileInfo(d).included
              /\ d.dir \notin target.excludedDirs
              /\ doing.step \in {"fixes", "fixing"} => HasLinks(n)
              /\ doing.step \in {"writes", "writing", "deletes"} /\ HasLinks(n) => disk[d].link = n
              /\ doing.step \in {"writing", "deletes"} => n \in DOMAIN disk /\ disk[n].from = disk[d].from
              /\ doing.step = "deletes" /\ Orderly(d) => ~ LostAt(n)

\* What was read of it.
TextIsKept ==
    LET d == doing.file
    IN  /\ doing.step = "fixing" =>
              /\ doing.text \in Contents /\ doing.text.from = disk[d].from /\ doing.text.link = disk[d].link
              /\ doing.text.bytes = "altered" => doing.text.from \in Binary
              /\ Orderly(d) /\ doing.text.bytes = "torn" => doing.text.from \in cut
        /\ doing.step = "writing" => doing.text = disk[d]

\* What a file is altered by, and where what is lost of one still is.
BytesAreKept ==
    \A h \in DOMAIN disk :
        /\ disk[h].bytes = "altered" => disk[h].from \in Binary
        /\ Orderly(h) /\ LostAt(h) /\ ~ InHand(h) => disk[h].from # h /\ disk[h].from \in DOMAIN disk
        /\ Orderly(h) /\ disk[h].bytes = "altered" /\ NameTags(h) = {} => disk[h].from # h

\* The excluded directories are not touched.
ExcludedRemain ==
    /\ \A h \in DOMAIN disk : h.dir \in target.excludedDirs => h \in original /\ disk[h] = FirstContent(h)
    /\ \A h \in original : h.dir \in target.excludedDirs => h \in DOMAIN disk
    /\ \A h \in left : h.dir \notin target.excludedDirs

\* What the target has of a file is in it or in a variant of it, all of them as
\* long as the file has what it had at first.
NothingIsLost ==
    \A f \in CommonFiles : Orderly(f) =>
        /\ Expected(f) # {} => \E h \in DOMAIN disk : disk[h].from \in Expected(f) /\ h \in Expected(f) \cup {f}
        /\ f \in DOMAIN disk /\ disk[f].from = f =>
              \A g \in VariantsOf(f) : g \in DOMAIN disk /\ disk[g].from = g

\* A pass goes through every file with a tag.
PassGoesOn ==
    doing.step \notin {"idle", "killed"} =>
        \A h \in DOMAIN disk : Orderly(h) /\ NameTags(h) # {} /\ h.dir \notin target.excludedDirs =>
            h \in left \/ (doing.step \in Renaming /\ h = doing.file)

FilesIInv ==
    /\ FilesShape /\ DiskIsDerived /\ LinksAreKept /\ HandIsKept /\ TextIsKept
    /\ NothingIsLost /\ BytesAreKept /\ ExcludedRemain /\ PassGoesOn

FilesKept == original \subseteq Files /\ target \in Targets

\* What becomes of what is in a file that is written.
LEMMA ContentWritten ==
    ASSUME NEW content \in Contents
    PROVE  /\ Torn(content) \in Contents /\ Torn(content).bytes = "torn"
           /\ Torn(content).from = content.from /\ Torn(content).link = content.link
           /\ AsText(content) \in Contents
           /\ AsText(content).from = content.from /\ AsText(content).link = content.link
           /\ AsText(content).bytes = "torn" => content.bytes = "torn"
           /\ AsText(content).bytes = "altered" => content.bytes = "altered" \/ content.from \in Binary
<1>1. Torn(content) = [from |-> content.from, link |-> content.link, bytes |-> "torn"]
  BY DEF Torn, Contents
<1> DEFINE b == IF content.bytes = "whole" /\ content.from \in Binary THEN "altered" ELSE content.bytes
<1>2. AsText(content) = [from |-> content.from, link |-> content.link, bytes |-> b]
  BY DEF AsText, Contents
<1> QED
  BY <1>1, <1>2 DEF Contents

\* Files of one directory with one first part are orderly together.
LEMMA OrderlyTogether ==
    ASSUME NEW f, NEW h, f.dir = h.dir, f.name[1] = h.name[1]
    PROVE  Orderly(f) <=> Orderly(h)
<1>1. Head(f.name) = Head(h.name)
  BY DEF Head
<1> QED
  BY <1>1 DEF Orderly, Alone

\* A file that was there at first, where none has several tags.
LEMMA AtFirst ==
    ASSUME FilesKept, NEW h \in original, Orderly(h)
    PROVE  /\ h \in FileNames /\ (NameTags(h) = {} \/ \E i : NameTags(h) = {i})
           /\ Common(h) \in CommonFiles
<1>1. h \in FileNames
  BY FilesAssumption DEF FilesKept, FileNames, FilePaths
<1>2. Tags(h.dir, TagValues) = {} /\ Cardinality(AllTags(h)) <= 1
  BY DEF Orderly, Alone
<1> QED
  BY <1>1, <1>2, FewTags DEF CommonFiles, TagValues

\* The common name of files has no tag.
LEMMA CommonFileIs ==
    ASSUME FilesKept, NEW f \in CommonFiles
    PROVE  f \in FileNames /\ Tags(f.dir, TagValues) = {} /\ NameTags(f) = {}
           /\ OnDevice(f) = f /\ ProjectFileInfo(f).included
<1>1. PICK g \in original : Cardinality(AllTags(g)) <= 1 /\ Tags(g.dir, TagValues) = {} /\ f = Common(g)
  BY DEF CommonFiles, TagValues
<1>2. g \in FileNames
  BY FilesAssumption DEF FilesKept, FileNames, FilePaths
<1>3. NameTags(g) = {} \/ \E i : NameTags(g) = {i}
  BY <1>1, <1>2, FewTags
<1>4. f \in FileNames /\ Tags(f.dir, TagValues) = {} /\ NameTags(f) = {}
  <2>1. CASE NameTags(g) = {}
    BY <1>1, <1>2, <2>1, WithoutATag
  <2>2. CASE \E i : NameTags(g) = {i}
    BY <1>1, <1>2, <2>2, WithOneTag DEF FilesKept
  <2> QED
    BY <1>3, <2>1, <2>2
<1> QED
  BY <1>4, WithoutATag

\* A variant has a tag, is for the target and is called on the device what it is
\* a variant of.
LEMMA VariantIs ==
    ASSUME FilesKept, NEW f \in CommonFiles, Orderly(f), NEW g \in VariantsOf(f)
    PROVE  /\ g \in original /\ g \in FileNames /\ g # f /\ NameTags(g) # {} /\ Orderly(g)
           /\ OnDevice(g) = f /\ ProjectFileInfo(g).included
<1>1. g \in original /\ Common(g) = f /\ g # f /\ ItsTag(g) \in {target.platform, target.configuration}
  BY DEF VariantsOf
<1>2. g \in FileNames
  BY <1>1, FilesAssumption DEF FilesKept, FileNames, FilePaths
<1>3. Cardinality(AllTags(g)) = 1 /\ Tags(g.dir, TagValues) = {}
  BY <1>1 DEF Common, TagValues
<1>4. PICK i : NameTags(g) = {i}
  BY <1>2, <1>3, FewTags
<1>5. /\ f = OnDevice(g) /\ f.dir = g.dir /\ f.name[1] = g.name[1]
      /\ ProjectFileInfo(g).included
  BY <1>1, <1>2, <1>3, <1>4, WithOneTag DEF FilesKept
<1> QED
  BY <1>1, <1>2, <1>4, <1>5, OrderlyTogether

\* What the target has of a file is the file or its variants.
LEMMA ExpectedIs ==
    ASSUME FilesKept, NEW f \in CommonFiles, Orderly(f), NEW h \in Expected(f) \cup {f}
    PROVE  /\ h \in FileNames /\ Orderly(h) /\ ProjectFileInfo(h).included /\ OnDevice(h) = f
           /\ h # f => h \in VariantsOf(f)
<1>1. CASE h = f
  BY <1>1, CommonFileIs
<1>2. CASE h # f
  <2>1. h \in VariantsOf(f)
    BY <1>2 DEF Expected
  <2> QED
    BY <2>1, VariantIs
<1> QED
  BY <1>1, <1>2

\* A file with a tag on the disk is as it was at first, and a variant of what it is
\* called on the device.
LEMMA TaggedOnDisk ==
    ASSUME FilesKept, FilesShape, DiskIsDerived, NEW h \in DOMAIN disk, Orderly(h), OnDevice(h) # h \/ NameTags(h) # {}
    PROVE  /\ h \in original /\ disk[h].from = h /\ NameTags(h) # {} /\ OnDevice(h) # h
           /\ OnDevice(h) \in FileNames /\ NameTags(OnDevice(h)) = {} /\ Orderly(OnDevice(h))
           /\ OnDevice(h).dir = h.dir /\ OnDevice(h).name[1] = h.name[1]
           /\ OnDevice(h) \in CommonFiles
           /\ Common(h) = OnDevice(h)
           /\ ProjectFileInfo(h).included <=> h \in VariantsOf(OnDevice(h))
<1>1. h \in FileNames /\ Tags(h.dir, TagValues) = {}
  BY DEF FilesShape, Orderly
<1>2. NameTags(h) # {}
  BY <1>1, WithoutATag
<1>3. disk[h].from = h /\ h \in original
  BY <1>2 DEF DiskIsDerived
<1>4. PICK i : NameTags(h) = {i}
  BY <1>2, <1>3, AtFirst
<1>5. /\ Common(h) = OnDevice(h) /\ Common(h) # h
      /\ Common(h) \in FileNames /\ NameTags(Common(h)) = {}
      /\ Common(h).dir = h.dir /\ Common(h).name[1] = h.name[1]
      /\ ProjectFileInfo(h).included <=> ItsTag(h) \in {target.platform, target.configuration}
  BY <1>1, <1>4, WithOneTag DEF FilesKept
<1>6. Orderly(OnDevice(h))
  BY <1>5, OrderlyTogether
<1>7. Common(h) \in CommonFiles
  BY <1>3, AtFirst
<1> QED
  BY <1>2, <1>3, <1>5, <1>6, <1>7 DEF VariantsOf

\* What is said of the files does not change with the disk.
LEMMA TheSameFiles ==
    ASSUME UNCHANGED <<original, target>>
    PROVE  /\ CommonFiles' = CommonFiles
           /\ \A f : VariantsOf(f)' = VariantsOf(f) /\ Expected(f)' = Expected(f)
           /\ \A f : Orderly(f)' <=> Orderly(f)
           /\ \A f : OnDevice(f)' = OnDevice(f) /\ ProjectFileInfo(f)' = ProjectFileInfo(f)
<1>1. CommonFiles' = CommonFiles
  BY DEF CommonFiles
<1>2. \A f : VariantsOf(f)' = VariantsOf(f)
  BY DEF VariantsOf
<1>3. \A f : Expected(f)' = Expected(f)
  BY <1>2 DEF Expected
<1>4. \A f : Orderly(f)' <=> Orderly(f)
  BY DEF Orderly, Alone
<1>5. \A f : ProjectFileInfo(f)' = ProjectFileInfo(f)
  BY DEF ProjectFileInfo
<1>6. \A f : OnDevice(f)' = OnDevice(f)
  BY <1>5 DEF OnDevice
<1> QED
  BY <1>1, <1>2, <1>3, <1>4, <1>5, <1>6

\* The file in hand after a step.
LEMMA HandAfter ==
    ASSUME UNCHANGED <<original, target>>, NEW d, doing'.file = d
    PROVE  /\ OnDevice(doing.file)' = OnDevice(d) /\ ProjectFileInfo(doing.file)' = ProjectFileInfo(d)
           /\ HasLinks(OnDevice(doing.file))' <=> HasLinks(OnDevice(d))
           /\ Orderly(doing.file)' <=> Orderly(d)
<1>1. OnDevice(doing.file)' = OnDevice(d) /\ ProjectFileInfo(doing.file)' = ProjectFileInfo(d)
  BY DEF OnDevice, ProjectFileInfo
<1>2. HasLinks(OnDevice(doing.file))' <=> HasLinks(OnDevice(d))
  BY <1>1 DEF HasLinks
<1>3. Orderly(doing.file)' <=> Orderly(d)
  BY DEF Orderly, Alone
<1> QED
  BY <1>1, <1>2, <1>3

\* While the disk is as it was, so is what is in it.
LEMMA DiskRemains ==
    ASSUME FilesIInv, UNCHANGED <<original, target, disk, cut>>, doing.step # "fixing"
    PROVE  DiskIsDerived' /\ LinksAreKept' /\ NothingIsLost' /\ BytesAreKept'
<1>1. DiskIsDerived'
  BY TheSameFiles DEF FilesIInv, DiskIsDerived
<1>2. LinksAreKept'
  BY TheSameFiles DEF FilesIInv, LinksAreKept
<1>3. NothingIsLost'
  BY TheSameFiles DEF FilesIInv, NothingIsLost
<1>4. BytesAreKept'
  <2>1. BytesAreKept /\ \A h : LostAt(h)' <=> LostAt(h)
    BY DEF FilesIInv, LostAt
  <2>2. \A h : ~ InHand(h)
    BY DEF InHand
  <2> QED
    BY <2>1, <2>2, TheSameFiles DEF BytesAreKept, NameTags
<1> QED
  BY <1>1, <1>2, <1>3, <1>4

\* One of another platform or configuration goes.
LEMMA NextFileKeeps ==
    ASSUME FilesIInv, NextFile
    PROVE  FilesIInv'
<1>1. /\ FilesShape /\ DiskIsDerived /\ LinksAreKept /\ HandIsKept /\ NothingIsLost /\ BytesAreKept
      /\ ExcludedRemain /\ PassGoesOn /\ FilesKept
  BY DEF FilesIInv, FilesShape, FilesKept
<1>2. PICK f \in left :
          LET info == ProjectFileInfo(f)
          IN /\ left' = left \ {f}
             /\ disk' = IF info.included THEN disk ELSE Without(f)
             /\ doing' = IF info.included /\ OnDevice(f) # f
                         THEN [NotDoing EXCEPT !.file = f, !.step = IF HasLinks(OnDevice(f)) THEN "fixes" ELSE "writes"]
                         ELSE NotDoing
  BY DEF NextFile
<1>3. UNCHANGED <<original, target, cut>> /\ doing.step = "next"
  BY DEF NextFile
<1>4. f \in DOMAIN disk /\ f \in FileNames /\ f.dir \notin target.excludedDirs
  BY <1>1 DEF FilesShape, ExcludedRemain
<1>5. CASE ProjectFileInfo(f).included
  <2>1. disk' = disk
    BY <1>2, <1>5
  <2>2. DiskIsDerived' /\ LinksAreKept' /\ NothingIsLost' /\ BytesAreKept'
    BY <1>3, <2>1, DiskRemains
  <2>3. ExcludedRemain'
    BY <1>1, <1>2, <1>3, <2>1 DEF ExcludedRemain, FirstContent
  <2>4. CASE OnDevice(f) = f
    <3>1. doing' = NotDoing /\ doing'.step = "next" /\ doing'.file = None
      BY <1>2, <2>4 DEF NotDoing
    <3>2. FilesShape'
      BY <1>1, <1>2, <1>3, <2>1, <3>1 DEF FilesShape, NotDoing
    <3>3. HandIsKept' /\ TextIsKept'
      BY <3>1 DEF HandIsKept, TextIsKept, Renaming
    <3>4. PassGoesOn'
      <4> SUFFICES ASSUME NEW h \in DOMAIN disk, Orderly(h), NameTags(h) # {}, h.dir \notin target.excludedDirs
                   PROVE  h \in left \ {f}
        BY <1>2, <1>3, <2>1, TheSameFiles DEF PassGoesOn, NameTags
      <4>1. OnDevice(h) # h
        BY <1>1, TaggedOnDisk
      <4>2. h \in left
        BY <1>1, <1>3 DEF PassGoesOn, Renaming
      <4> QED
        BY <2>4, <4>1, <4>2
    <3> QED
      BY <2>2, <2>3, <3>2, <3>3, <3>4 DEF FilesIInv
  <2>5. CASE OnDevice(f) # f
    <3> DEFINE step == IF HasLinks(OnDevice(f)) THEN "fixes" ELSE "writes"
    <3>1. doing' = [file |-> f, step |-> step, text |-> NoText]
      BY <1>2, <1>5, <2>5 DEF NotDoing
    <3>2. doing'.file = f /\ doing'.step = step
      BY <3>1
    <3>3. doing' \in [file : FileNames \cup {None}, step : Renaming, text : Contents \cup {NoText}]
      BY <1>4, <3>1 DEF Renaming
    <3>4. FilesShape'
      BY <1>1, <1>2, <1>3, <2>1, <3>3 DEF FilesShape
    <3>5. HandIsKept'
      <4>1. step \in {"fixes", "writes"} /\ (step = "fixes" <=> HasLinks(OnDevice(f)))
        OBVIOUS
      <4>2. /\ OnDevice(doing.file)' = OnDevice(f) /\ ProjectFileInfo(doing.file)' = ProjectFileInfo(f)
            /\ HasLinks(OnDevice(doing.file))' <=> HasLinks(OnDevice(f))
        BY <1>3, <3>2, HandAfter
      <4> HIDE DEF step
      <4> QED
        BY <1>2, <1>3, <1>4, <1>5, <2>1, <2>5, <3>2, <4>1, <4>2 DEF HandIsKept, Renaming
    <3>6. TextIsKept'
      BY <3>2 DEF TextIsKept
    <3>7. PassGoesOn'
      BY <1>1, <1>2, <1>3, <2>1, <3>2, <3>3, TheSameFiles DEF PassGoesOn, NameTags, Renaming
    <3> QED
      BY <2>2, <2>3, <3>4, <3>5, <3>6, <3>7 DEF FilesIInv
  <2> QED
    BY <2>4, <2>5
<1>6. CASE ~ ProjectFileInfo(f).included
  <2>1. DOMAIN disk' = DOMAIN disk \ {f} /\ \A h \in DOMAIN disk' : disk'[h] = disk[h]
    BY <1>2, <1>6 DEF Without
  <2>2. doing' = NotDoing /\ doing'.step = "next" /\ doing'.file = None
    BY <1>2, <1>6 DEF NotDoing
  <2>3. FilesShape'
    <3>1. disk' \in [DOMAIN disk' -> Contents]
      BY <1>1, <1>2, <1>6, <2>1 DEF FilesShape, Without
    <3> QED
      BY <1>1, <1>2, <1>3, <2>1, <2>2, <3>1 DEF FilesShape, NotDoing
  <2>4. DiskIsDerived'
    BY <1>1, <1>3, <2>1, TheSameFiles DEF DiskIsDerived, NameTags
  <2>5. LinksAreKept'
    BY <1>1, <1>3, <2>1, TheSameFiles DEF LinksAreKept
  <2>6. HandIsKept' /\ TextIsKept'
    BY <2>2 DEF HandIsKept, TextIsKept, Renaming
  <2>7. NothingIsLost'
    <3> SUFFICES ASSUME NEW g \in CommonFiles, Orderly(g)
                 PROVE  /\ Expected(g) # {} => \E h \in DOMAIN disk' : disk'[h].from \in Expected(g) /\ h \in Expected(g) \cup {g}
                        /\ g \in DOMAIN disk' /\ disk'[g].from = g =>
                              \A v \in VariantsOf(g) : v \in DOMAIN disk' /\ disk'[v].from = v
      BY <1>3, TheSameFiles DEF NothingIsLost
    <3>1. f \notin Expected(g) \cup {g}
      BY <1>1, <1>6, ExpectedIs
    <3>2. f \notin VariantsOf(g)
      BY <1>1, <1>6, VariantIs
    <3> QED
      BY <1>1, <2>1, <3>1, <3>2 DEF NothingIsLost
  <2>8. BytesAreKept'
    <3> SUFFICES ASSUME NEW h \in DOMAIN disk'
                 PROVE  /\ disk[h].bytes = "altered" => disk[h].from \in Binary
                        /\ Orderly(h) /\ LostAt(h) => disk[h].from # h /\ disk[h].from \in DOMAIN disk'
                        /\ Orderly(h) /\ disk[h].bytes = "altered" /\ NameTags(h) = {} => disk[h].from # h
      BY <1>3, <2>1, TheSameFiles DEF BytesAreKept, LostAt, NameTags
    <3>1. /\ disk[h].bytes = "altered" => disk[h].from \in Binary
          /\ Orderly(h) /\ LostAt(h) => disk[h].from # h /\ disk[h].from \in DOMAIN disk
          /\ Orderly(h) /\ disk[h].bytes = "altered" /\ NameTags(h) = {} => disk[h].from # h
      BY <1>1, <1>3, <2>1 DEF BytesAreKept, InHand
    <3>2. ASSUME Orderly(h), disk[h].from # h, disk[h].from = f PROVE FALSE
      <4>1. f \in VariantsOf(h) /\ NameTags(h) = {} /\ f.dir = h.dir /\ f.name[1] = h.name[1]
        BY <1>1, <2>1, <3>2 DEF DiskIsDerived
      <4>2. Common(f) = h /\ f \in original /\ Orderly(f)
        BY <3>2, <4>1, OrderlyTogether DEF VariantsOf
      <4>3. h \in CommonFiles
        BY <1>1, <4>2, AtFirst
      <4> QED
        BY <1>1, <1>6, <3>2, <4>1, <4>3, VariantIs
    <3> QED
      BY <2>1, <3>1, <3>2
  <2>9. ExcludedRemain'
    BY <1>1, <1>2, <1>3, <1>4, <2>1 DEF ExcludedRemain, FirstContent
  <2>10. PassGoesOn'
    BY <1>1, <1>2, <1>3, <2>1, TheSameFiles DEF PassGoesOn, NameTags, Renaming
  <2> QED
    BY <2>3, <2>4, <2>5, <2>6, <2>7, <2>8, <2>9, <2>10 DEF FilesIInv
<1> QED
  BY <1>5, <1>6

\* The file in hand is read and truncated: what was in it is in memory.
LEMMA FixLinksKeeps ==
    ASSUME FilesIInv, FixLinks
    PROVE  FilesIInv'
<1>1. /\ FilesShape /\ DiskIsDerived /\ LinksAreKept /\ HandIsKept /\ NothingIsLost /\ BytesAreKept
      /\ ExcludedRemain /\ PassGoesOn /\ FilesKept
  BY DEF FilesIInv, FilesShape, FilesKept
<1>2. PICK d : d = doing.file
  OBVIOUS
<1>3. PICK n : n = OnDevice(d)
  OBVIOUS
<1>4. UNCHANGED <<original, target, left, cut>> /\ doing.step = "fixes"
  BY DEF FixLinks
<1>5. /\ d \in DOMAIN disk /\ d \in FileNames /\ d \notin left /\ n # d /\ ProjectFileInfo(d).included /\ HasLinks(n)
      /\ d.dir \notin target.excludedDirs
  BY <1>1, <1>2, <1>3, <1>4 DEF HandIsKept, Renaming, FilesShape
<1>6. disk[d] \in Contents
  BY <1>1, <1>5 DEF FilesShape
<1>7. /\ DOMAIN disk' = DOMAIN disk /\ disk' = [h \in DOMAIN disk' |-> disk'[h]]
      /\ \A h \in DOMAIN disk : disk'[h] = IF h = d THEN Torn(disk[d]) ELSE disk[h]
  BY <1>2 DEF FixLinks
<1>8. /\ \A h \in DOMAIN disk : disk'[h].from = disk[h].from /\ disk'[h].link = disk[h].link
      /\ \A h \in DOMAIN disk \ {d} : disk'[h] = disk[h]
      /\ disk'[d].bytes = "torn" /\ disk'[d] \in Contents
  BY <1>5, <1>6, <1>7, ContentWritten
<1>9. doing' = [file |-> d, step |-> "fixing", text |-> disk[d]]
  BY <1>1, <1>2, <1>4 DEF FixLinks, FilesShape
<1>10. doing'.file = d /\ doing'.step = "fixing" /\ doing'.text = disk[d]
  BY <1>9
<1>11. FilesShape'
  <2>1. disk' \in [DOMAIN disk' -> Contents]
    BY <1>1, <1>7, <1>8 DEF FilesShape
  <2>2. \A h \in DOMAIN disk : disk'[h].link.dir = h.dir
    BY <1>1, <1>8 DEF FilesShape
  <2>3. doing' \in [file : FileNames \cup {None}, step : Renaming, text : Contents \cup {NoText}]
    BY <1>5, <1>6, <1>9 DEF Renaming
  <2> QED
    BY <1>1, <1>4, <1>7, <2>1, <2>2, <2>3 DEF FilesShape
<1>12. DiskIsDerived'
  <2>1. DOMAIN disk' = DOMAIN disk /\ original' = original /\ \A h \in DOMAIN disk : disk'[h].from = disk[h].from
    BY <1>4, <1>7, <1>8
  <2>2. \A h : NameTags(h)' = NameTags(h)
    BY DEF NameTags
  <2> QED
    BY <1>1, <1>4, <2>1, <2>2, TheSameFiles DEF DiskIsDerived
<1>13. LinksAreKept'
  BY <1>1, <1>4, <1>7, <1>8, TheSameFiles DEF LinksAreKept
<1>14. HandIsKept'
  <2>1. /\ OnDevice(doing.file)' = n /\ ProjectFileInfo(doing.file)' = ProjectFileInfo(d)
        /\ HasLinks(OnDevice(doing.file))' <=> HasLinks(n)
    BY <1>3, <1>4, <1>10, HandAfter
  <2> QED
    BY <1>4, <1>5, <1>7, <1>10, <2>1 DEF HandIsKept, Renaming
<1>15. TextIsKept'
  <2>1. Orderly(d) /\ disk[d].bytes = "torn" => disk[d].from \in cut
    <3>1. OnDevice(d) # d /\ ~ InHand(d)
      BY <1>3, <1>4, <1>5 DEF InHand
    <3>2. Orderly(d) => disk[d].from = d
      BY <1>1, <1>5, <3>1, TaggedOnDisk
    <3> QED
      BY <1>1, <1>5, <3>1, <3>2 DEF BytesAreKept, LostAt
  <2>2. disk[d].bytes = "altered" => disk[d].from \in Binary
    BY <1>1, <1>5 DEF BytesAreKept
  <2>3. Orderly(doing.file)' <=> Orderly(d)
    BY <1>4, <1>10, HandAfter
  <2>4. disk'[d].from = disk[d].from /\ disk'[d].link = disk[d].link
    BY <1>5, <1>8
  <2> QED
    BY <1>4, <1>6, <1>10, <2>1, <2>2, <2>3, <2>4 DEF TextIsKept
<1>16. NothingIsLost'
  BY <1>1, <1>4, <1>7, <1>8, TheSameFiles DEF NothingIsLost
<1>17. BytesAreKept'
  <2> SUFFICES ASSUME NEW h \in DOMAIN disk
               PROVE  /\ disk'[h].bytes = "altered" => disk'[h].from \in Binary
                      /\ Orderly(h) /\ LostAt(h)' /\ h # d => disk'[h].from # h /\ disk'[h].from \in DOMAIN disk
                      /\ Orderly(h) /\ disk'[h].bytes = "altered" /\ NameTags(h) = {} => disk'[h].from # h
    BY <1>4, <1>7, <1>10, TheSameFiles DEF BytesAreKept, InHand, NameTags
  <2>1. CASE h = d
    BY <1>8, <2>1
  <2>2. CASE h # d
    <3>1. disk'[h] = disk[h] /\ ~ InHand(h)
      BY <1>4, <1>8, <2>2 DEF InHand
    <3> QED
      BY <1>1, <1>4, <3>1 DEF BytesAreKept, LostAt
  <2> QED
    BY <2>1, <2>2
<1>18. ExcludedRemain'
  BY <1>1, <1>4, <1>5, <1>7, <1>8 DEF ExcludedRemain, FirstContent
<1>19. PassGoesOn'
  BY <1>1, <1>2, <1>4, <1>7, <1>10, TheSameFiles DEF PassGoesOn, NameTags, Renaming
<1> QED
  BY <1>11, <1>12, <1>13, <1>14, <1>15, <1>16, <1>17, <1>18, <1>19 DEF FilesIInv

\* And then has its text, with the new name.
LEMMA LinksFixedKeeps ==
    ASSUME FilesIInv, LinksFixed
    PROVE  FilesIInv'
<1>1. /\ FilesShape /\ DiskIsDerived /\ LinksAreKept /\ HandIsKept /\ TextIsKept /\ NothingIsLost /\ BytesAreKept
      /\ ExcludedRemain /\ PassGoesOn /\ FilesKept
  BY DEF FilesIInv, FilesShape, FilesKept
<1>2. PICK d : d = doing.file
  OBVIOUS
<1>3. PICK n : n = OnDevice(d)
  OBVIOUS
<1>4. PICK text : text = doing.text
  OBVIOUS
<1>5. UNCHANGED <<original, target, left, cut>> /\ doing.step = "fixing"
  BY DEF LinksFixed
<1>6. /\ d \in DOMAIN disk /\ d \in FileNames /\ d \notin left /\ n # d /\ ProjectFileInfo(d).included /\ HasLinks(n)
      /\ d.dir \notin target.excludedDirs
  BY <1>1, <1>2, <1>3, <1>5 DEF HandIsKept, Renaming, FilesShape
<1>7. n \in FileNames /\ n.dir = d.dir /\ HasLinks(d)
  BY <1>3, <1>6, NameOnDevice
<1>8. /\ text \in Contents /\ text.from = disk[d].from /\ text.link \in {d, n}
      /\ text.bytes = "altered" => text.from \in Binary
      /\ Orderly(d) /\ text.bytes = "torn" => text.from \in cut
  BY <1>1, <1>2, <1>3, <1>4, <1>5, <1>6, <1>7 DEF TextIsKept, LinksAreKept
<1> DEFINE written == [AsText(text) EXCEPT !.link = IF @ = d THEN n ELSE @]
<1>9. /\ DOMAIN disk' = DOMAIN disk /\ disk' = [h \in DOMAIN disk' |-> disk'[h]]
      /\ \A h \in DOMAIN disk : disk'[h] = IF h = d THEN written ELSE disk[h]
  BY <1>2, <1>3, <1>4 DEF LinksFixed
<1>10. /\ written \in Contents /\ written.from = disk[d].from /\ written.link = n
       /\ written.bytes = "altered" => written.from \in Binary
       /\ Orderly(d) /\ written.bytes = "torn" => written.from \in cut
  <2>1. /\ AsText(text) \in Contents /\ AsText(text).from = text.from /\ AsText(text).link = text.link
        /\ AsText(text).bytes = "torn" => text.bytes = "torn"
        /\ AsText(text).bytes = "altered" => text.bytes = "altered" \/ text.from \in Binary
    BY <1>8, ContentWritten
  <2>2. written = [from |-> text.from, link |-> n, bytes |-> AsText(text).bytes]
    BY <1>8, <2>1 DEF Contents
  <2> HIDE DEF written
  <2>3. written \in Contents /\ written.from = text.from /\ written.link = n /\ written.bytes = AsText(text).bytes
    BY <1>7, <2>1, <2>2 DEF Contents
  <2> QED
    BY <1>8, <2>1, <2>3
<1> HIDE DEF written
<1>11. /\ \A h \in DOMAIN disk : disk'[h].from = disk[h].from
       /\ \A h \in DOMAIN disk \ {d} : disk'[h] = disk[h]
       /\ disk'[d] = written
  BY <1>6, <1>9, <1>10
<1>12. doing' = [file |-> d, step |-> "writes", text |-> NoText]
  BY <1>1, <1>2, <1>5 DEF LinksFixed, FilesShape
<1>13. doing'.file = d /\ doing'.step = "writes"
  BY <1>12
<1>14. FilesShape'
  <2>1. disk' \in [DOMAIN disk' -> Contents]
    BY <1>1, <1>9, <1>10, <1>11 DEF FilesShape
  <2>2. \A h \in DOMAIN disk : disk'[h].link.dir = h.dir
    BY <1>1, <1>7, <1>10, <1>11 DEF FilesShape
  <2>3. doing' \in [file : FileNames \cup {None}, step : Renaming, text : Contents \cup {NoText}]
    BY <1>6, <1>12 DEF Renaming
  <2> QED
    BY <1>1, <1>5, <1>9, <2>1, <2>2, <2>3 DEF FilesShape
<1>15. DiskIsDerived'
  <2>1. DOMAIN disk' = DOMAIN disk /\ original' = original /\ \A h \in DOMAIN disk : disk'[h].from = disk[h].from
    BY <1>5, <1>9, <1>11
  <2>2. \A h : NameTags(h)' = NameTags(h)
    BY DEF NameTags
  <2> QED
    BY <1>1, <1>5, <2>1, <2>2, TheSameFiles DEF DiskIsDerived
<1>16. LinksAreKept'
  BY <1>1, <1>3, <1>5, <1>9, <1>10, <1>11, TheSameFiles DEF LinksAreKept
<1>17. HandIsKept'
  <2>1. /\ OnDevice(doing.file)' = n /\ ProjectFileInfo(doing.file)' = ProjectFileInfo(d)
        /\ HasLinks(OnDevice(doing.file))' <=> HasLinks(n)
    BY <1>3, <1>5, <1>13, HandAfter
  <2> QED
    BY <1>5, <1>6, <1>9, <1>10, <1>11, <1>13, <2>1 DEF HandIsKept, Renaming
<1>18. TextIsKept'
  BY <1>13 DEF TextIsKept
<1>19. NothingIsLost'
  BY <1>1, <1>5, <1>9, <1>11, TheSameFiles DEF NothingIsLost
<1>20. BytesAreKept'
  <2> SUFFICES ASSUME NEW h \in DOMAIN disk
               PROVE  /\ disk'[h].bytes = "altered" => disk'[h].from \in Binary
                      /\ Orderly(h) /\ LostAt(h)' => disk'[h].from # h /\ disk'[h].from \in DOMAIN disk
                      /\ Orderly(h) /\ disk'[h].bytes = "altered" /\ NameTags(h) = {} => disk'[h].from # h
    BY <1>5, <1>9, <1>13, TheSameFiles DEF BytesAreKept, InHand, NameTags
  <2>1. CASE h = d
    <3>1. Orderly(d) => NameTags(d) # {}
      BY <1>1, <1>3, <1>6, TaggedOnDisk
    <3>2. Orderly(d) => ~ LostAt(d)'
      BY <1>5, <1>10, <1>11 DEF LostAt
    <3> QED
      BY <1>10, <1>11, <2>1, <3>1, <3>2
  <2>2. CASE h # d
    <3>1. disk'[h] = disk[h] /\ ~ InHand(h)
      BY <1>2, <1>11, <2>2 DEF InHand
    <3> QED
      BY <1>1, <1>5, <3>1 DEF BytesAreKept, LostAt
  <2> QED
    BY <2>1, <2>2
<1>21. ExcludedRemain'
  BY <1>1, <1>5, <1>6, <1>9, <1>11 DEF ExcludedRemain, FirstContent
<1>22. PassGoesOn'
  BY <1>1, <1>2, <1>5, <1>9, <1>13, TheSameFiles DEF PassGoesOn, NameTags, Renaming
<1> QED
  BY <1>14, <1>15, <1>16, <1>17, <1>18, <1>19, <1>20, <1>21, <1>22 DEF FilesIInv

\* What the file in hand is called on the device is created, and is still empty.
LEMMA WriteRenamedKeeps ==
    ASSUME FilesIInv, WriteRenamed
    PROVE  FilesIInv'
<1>1. /\ FilesShape /\ DiskIsDerived /\ LinksAreKept /\ HandIsKept /\ NothingIsLost /\ BytesAreKept
      /\ ExcludedRemain /\ PassGoesOn /\ FilesKept
  BY DEF FilesIInv, FilesShape, FilesKept
<1>2. PICK d : d = doing.file
  OBVIOUS
<1>3. PICK n : n = OnDevice(d)
  OBVIOUS
<1>4. UNCHANGED <<original, target, left, cut>> /\ doing.step = "writes"
  BY DEF WriteRenamed
<1>5. /\ d \in DOMAIN disk /\ d \in FileNames /\ d \notin left /\ n # d /\ ProjectFileInfo(d).included
      /\ d.dir \notin target.excludedDirs
      /\ HasLinks(n) => disk[d].link = n
  BY <1>1, <1>2, <1>3, <1>4 DEF HandIsKept, Renaming, FilesShape
<1>6. n \in FileNames /\ n.dir = d.dir /\ n.name[1] = d.name[1]
  BY <1>3, <1>5, NameOnDevice
<1>7. disk[d] \in Contents
  BY <1>1, <1>5 DEF FilesShape
<1>8. /\ DOMAIN disk' = DOMAIN disk \cup {n} /\ disk' = [h \in DOMAIN disk' |-> disk'[h]]
      /\ \A h \in DOMAIN disk \ {n} : disk'[h] = disk[h]
      /\ disk'[n] \in Contents /\ disk'[n].bytes = "torn" /\ disk'[n].from = disk[d].from /\ disk'[n].link = disk[d].link
  BY <1>2, <1>3, <1>7, ContentWritten DEF WriteRenamed, With
<1>9. doing' = [file |-> d, step |-> "writing", text |-> disk[d]]
  BY <1>1, <1>2, <1>4 DEF WriteRenamed, FilesShape
<1>10. doing'.file = d /\ doing'.step = "writing" /\ doing'.text = disk[d]
  BY <1>9
\* Where the file in hand is orderly it is a variant, as it was at first.
<1>11. Orderly(n) => /\ Orderly(d) /\ n \in CommonFiles /\ NameTags(n) = {} /\ disk[d].from = d
                     /\ d \in VariantsOf(n) /\ d # n
  BY <1>1, <1>3, <1>5, <1>6, OrderlyTogether, TaggedOnDisk
<1>12. FilesShape'
  <2>1. \A h \in DOMAIN disk' : disk'[h] \in Contents /\ disk'[h].link.dir = h.dir
    BY <1>1, <1>5, <1>6, <1>8 DEF FilesShape
  <2>2. disk' \in [DOMAIN disk' -> Contents]
    BY <1>8, <2>1
  <2>3. doing' \in [file : FileNames \cup {None}, step : Renaming, text : Contents \cup {NoText}]
    BY <1>5, <1>7, <1>9 DEF Renaming
  <2> QED
    BY <1>1, <1>4, <1>6, <1>8, <2>1, <2>2, <2>3 DEF FilesShape
<1>13. DiskIsDerived'
  <2> SUFFICES ASSUME NEW h \in DOMAIN disk'
               PROVE  LET o == disk'[h].from
                      IN  /\ o \in original /\ o.dir = h.dir /\ o.name[1] = h.name[1]
                          /\ Orderly(h) => h = o \/ (NameTags(h) = {} /\ o \in VariantsOf(h))
    BY <1>4, TheSameFiles DEF DiskIsDerived, NameTags
  <2>1. CASE h = n
    BY <1>1, <1>5, <1>6, <1>8, <1>11, <2>1 DEF DiskIsDerived
  <2>2. CASE h # n
    BY <1>1, <1>8, <2>2 DEF DiskIsDerived
  <2> QED
    BY <2>1, <2>2
<1>14. LinksAreKept'
  BY <1>1, <1>4, <1>5, <1>8, TheSameFiles DEF LinksAreKept
<1>15. disk'[d] = disk[d] /\ d \in DOMAIN disk' /\ n \in DOMAIN disk'
  BY <1>5, <1>8
<1>16. HandIsKept'
  <2>1. /\ OnDevice(doing.file)' = n /\ ProjectFileInfo(doing.file)' = ProjectFileInfo(d)
        /\ HasLinks(OnDevice(doing.file))' <=> HasLinks(n)
    BY <1>3, <1>4, <1>10, HandAfter
  <2> QED
    BY <1>4, <1>5, <1>8, <1>10, <1>15, <2>1 DEF HandIsKept, Renaming
<1>17. TextIsKept'
  BY <1>10, <1>15 DEF TextIsKept
<1>18. NothingIsLost'
  <2> SUFFICES ASSUME NEW g \in CommonFiles, Orderly(g)
               PROVE  /\ Expected(g) # {} => \E h \in DOMAIN disk' : disk'[h].from \in Expected(g) /\ h \in Expected(g) \cup {g}
                      /\ g \in DOMAIN disk' /\ disk'[g].from = g =>
                            \A v \in VariantsOf(g) : v \in DOMAIN disk' /\ disk'[v].from = v
    BY <1>4, TheSameFiles DEF NothingIsLost
  <2>1. CASE g = n
    <3>1. d \in VariantsOf(n) /\ disk'[n].from = d /\ d # n
      BY <1>8, <1>11, <2>1
    <3>2. d \in Expected(n)
      BY <3>1 DEF Expected
    <3> QED
      BY <1>8, <2>1, <3>1, <3>2
  <2>2. CASE g # n
    <3>1. n \notin Expected(g) \cup {g} /\ n \notin VariantsOf(g)
      <4>1. Orderly(n) => NameTags(n) = {}
        BY <1>11
      <4> QED
        BY <1>1, <2>2, <4>1, ExpectedIs, VariantIs
    <3> QED
      BY <1>1, <1>8, <2>2, <3>1 DEF NothingIsLost
  <2> QED
    BY <2>1, <2>2
<1>19. BytesAreKept'
  <2> SUFFICES ASSUME NEW h \in DOMAIN disk'
               PROVE  /\ disk'[h].bytes = "altered" => disk'[h].from \in Binary
                      /\ Orderly(h) /\ LostAt(h)' => disk'[h].from # h /\ disk'[h].from \in DOMAIN disk'
                      /\ Orderly(h) /\ disk'[h].bytes = "altered" /\ NameTags(h) = {} => disk'[h].from # h
    BY <1>4, <1>10, TheSameFiles DEF BytesAreKept, InHand, NameTags
  <2>1. CASE h = n
    BY <1>8, <1>11, <1>15, <2>1
  <2>2. CASE h # n
    <3>1. disk'[h] = disk[h] /\ h \in DOMAIN disk /\ ~ InHand(h)
      BY <1>4, <1>8, <2>2 DEF InHand
    <3> QED
      BY <1>1, <1>4, <1>8, <3>1 DEF BytesAreKept, LostAt
  <2> QED
    BY <2>1, <2>2
<1>20. ExcludedRemain'
  BY <1>1, <1>4, <1>5, <1>6, <1>8 DEF ExcludedRemain, FirstContent
<1>21. PassGoesOn'
  <2> SUFFICES ASSUME NEW h \in DOMAIN disk', Orderly(h), NameTags(h) # {}, h.dir \notin target.excludedDirs
               PROVE  h \in left \/ h = d
    BY <1>4, <1>10, TheSameFiles DEF PassGoesOn, NameTags, Renaming
  <2>1. h \in DOMAIN disk
    BY <1>8, <1>11
  <2> QED
    BY <1>1, <1>2, <1>4, <2>1 DEF PassGoesOn, Renaming
<1> QED
  BY <1>12, <1>13, <1>14, <1>16, <1>17, <1>18, <1>19, <1>20, <1>21 DEF FilesIInv

\* And gets what was in the file in hand.
LEMMA RenamedWrittenKeeps ==
    ASSUME FilesIInv, RenamedWritten
    PROVE  FilesIInv'
<1>1. /\ FilesShape /\ DiskIsDerived /\ LinksAreKept /\ HandIsKept /\ TextIsKept /\ NothingIsLost /\ BytesAreKept
      /\ ExcludedRemain /\ PassGoesOn /\ FilesKept
  BY DEF FilesIInv, FilesShape, FilesKept
<1>2. PICK d : d = doing.file
  OBVIOUS
<1>3. PICK n : n = OnDevice(d)
  OBVIOUS
<1>4. UNCHANGED <<original, target, left, cut>> /\ doing.step = "writing"
  BY DEF RenamedWritten
<1>5. /\ d \in DOMAIN disk /\ d \in FileNames /\ d \notin left /\ n # d /\ ProjectFileInfo(d).included
      /\ d.dir \notin target.excludedDirs
      /\ HasLinks(n) => disk[d].link = n
      /\ n \in DOMAIN disk /\ disk[n].from = disk[d].from
  BY <1>1, <1>2, <1>3, <1>4 DEF HandIsKept, Renaming, FilesShape
<1>6. n \in FileNames /\ n.dir = d.dir /\ n.name[1] = d.name[1]
  BY <1>3, <1>5, NameOnDevice
<1>7. disk[d] \in Contents /\ doing.text = disk[d]
  BY <1>1, <1>2, <1>4, <1>5 DEF FilesShape, TextIsKept
<1>8. /\ DOMAIN disk' = DOMAIN disk /\ disk' = [h \in DOMAIN disk' |-> disk'[h]]
      /\ \A h \in DOMAIN disk \ {n} : disk'[h] = disk[h]
      /\ disk'[n] \in Contents /\ disk'[n].from = disk[d].from /\ disk'[n].link = disk[d].link
      /\ disk'[n].bytes = "torn" => disk[d].bytes = "torn"
      /\ disk'[n].bytes = "altered" => disk[d].bytes = "altered" \/ disk[d].from \in Binary
  <2>1. disk' = With(n, AsText(disk[d]))
    BY <1>2, <1>3, <1>7 DEF RenamedWritten
  <2> QED
    BY <1>5, <1>7, <2>1, ContentWritten DEF With
<1>9. doing' = [file |-> d, step |-> "deletes", text |-> NoText]
  BY <1>1, <1>2, <1>4 DEF RenamedWritten, FilesShape
<1>10. doing'.file = d /\ doing'.step = "deletes"
  BY <1>9
<1>11. Orderly(n) => /\ Orderly(d) /\ n \in CommonFiles /\ NameTags(n) = {} /\ disk[d].from = d
                     /\ d \in VariantsOf(n) /\ d # n
  BY <1>1, <1>3, <1>5, <1>6, OrderlyTogether, TaggedOnDisk
<1>12. FilesShape'
  <2>1. \A h \in DOMAIN disk' : disk'[h] \in Contents /\ disk'[h].link.dir = h.dir
    BY <1>1, <1>5, <1>6, <1>8 DEF FilesShape
  <2>2. disk' \in [DOMAIN disk' -> Contents]
    BY <1>8, <2>1
  <2>3. doing' \in [file : FileNames \cup {None}, step : Renaming, text : Contents \cup {NoText}]
    BY <1>5, <1>9 DEF Renaming
  <2> QED
    BY <1>1, <1>4, <1>6, <1>8, <2>1, <2>2, <2>3 DEF FilesShape
<1>13. /\ \A h \in DOMAIN disk : disk'[h].from = disk[h].from
       /\ disk'[d] = disk[d] /\ d \in DOMAIN disk' /\ n \in DOMAIN disk'
  BY <1>5, <1>8
<1>14. DiskIsDerived'
  <2>1. \A h : NameTags(h)' = NameTags(h)
    BY DEF NameTags
  <2> QED
    BY <1>1, <1>4, <1>8, <1>13, <2>1, TheSameFiles DEF DiskIsDerived
<1>15. LinksAreKept'
  BY <1>1, <1>4, <1>5, <1>8, TheSameFiles DEF LinksAreKept
\* What was read was whole where the file is orderly.
<1>16. Orderly(d) => ~ LostAt(n)'
  <2>1. ~ InHand(d) /\ OnDevice(d) # d
    BY <1>3, <1>4, <1>5 DEF InHand
  <2>2. Orderly(d) => disk[d].from = d
    BY <1>1, <1>5, <2>1, TaggedOnDisk
  <2>3. Orderly(d) => ~ LostAt(d)
    BY <1>1, <1>5, <2>1, <2>2 DEF BytesAreKept
  <2> QED
    BY <1>4, <1>8, <2>3 DEF LostAt
<1>17. HandIsKept'
  <2>1. /\ OnDevice(doing.file)' = n /\ ProjectFileInfo(doing.file)' = ProjectFileInfo(d)
        /\ HasLinks(OnDevice(doing.file))' <=> HasLinks(n)
        /\ Orderly(doing.file)' <=> Orderly(d)
    BY <1>3, <1>4, <1>10, HandAfter
  <2>2. LostAt(OnDevice(doing.file))' <=> LostAt(n)'
    BY <2>1 DEF LostAt
  <2> QED
    BY <1>4, <1>5, <1>8, <1>10, <1>13, <1>16, <2>1, <2>2 DEF HandIsKept, Renaming
<1>18. TextIsKept'
  BY <1>10 DEF TextIsKept
<1>19. NothingIsLost'
  BY <1>1, <1>4, <1>8, <1>13, TheSameFiles DEF NothingIsLost
<1>20. BytesAreKept'
  <2> SUFFICES ASSUME NEW h \in DOMAIN disk
               PROVE  /\ disk'[h].bytes = "altered" => disk'[h].from \in Binary
                      /\ Orderly(h) /\ LostAt(h)' => disk'[h].from # h /\ disk'[h].from \in DOMAIN disk
                      /\ Orderly(h) /\ disk'[h].bytes = "altered" /\ NameTags(h) = {} => disk'[h].from # h
    BY <1>4, <1>8, <1>10, TheSameFiles DEF BytesAreKept, InHand, NameTags
  <2>1. CASE h = n
    <3>1. disk[d].bytes = "altered" => disk[d].from \in Binary
      BY <1>1, <1>5 DEF BytesAreKept
    <3> QED
      BY <1>8, <1>11, <1>16, <2>1, <3>1
  <2>2. CASE h # n
    <3>1. disk'[h] = disk[h] /\ ~ InHand(h)
      BY <1>4, <1>8, <2>2 DEF InHand
    <3> QED
      BY <1>1, <1>4, <3>1 DEF BytesAreKept, LostAt
  <2> QED
    BY <2>1, <2>2
<1>21. ExcludedRemain'
  BY <1>1, <1>4, <1>5, <1>6, <1>8 DEF ExcludedRemain, FirstContent
<1>22. PassGoesOn'
  BY <1>1, <1>2, <1>4, <1>8, <1>10, TheSameFiles DEF PassGoesOn, NameTags, Renaming
<1> QED
  BY <1>12, <1>14, <1>15, <1>17, <1>18, <1>19, <1>20, <1>21, <1>22 DEF FilesIInv

\* The file in hand goes when what was in it is under its new name.
LEMMA DeleteRenamedKeeps ==
    ASSUME FilesIInv, DeleteRenamed
    PROVE  FilesIInv'
<1>1. /\ FilesShape /\ DiskIsDerived /\ LinksAreKept /\ HandIsKept /\ NothingIsLost /\ BytesAreKept
      /\ ExcludedRemain /\ PassGoesOn /\ FilesKept
  BY DEF FilesIInv, FilesShape, FilesKept
<1>2. PICK d : d = doing.file
  OBVIOUS
<1>3. PICK n : n = OnDevice(d)
  OBVIOUS
<1>4. UNCHANGED <<original, target, left, cut>> /\ doing.step = "deletes"
  BY DEF DeleteRenamed
<1>5. /\ d \in DOMAIN disk /\ d \notin left /\ n # d
      /\ n \in DOMAIN disk /\ disk[n].from = disk[d].from
      /\ d.dir \notin target.excludedDirs
      /\ Orderly(d) => ~ LostAt(n)
  BY <1>1, <1>2, <1>3, <1>4 DEF HandIsKept, Renaming
<1>6. DOMAIN disk' = DOMAIN disk \ {d} /\ \A h \in DOMAIN disk' : disk'[h] = disk[h]
  BY <1>2 DEF DeleteRenamed, Without
<1>7. doing' = NotDoing /\ doing'.step = "next" /\ doing'.file = None
  BY DEF DeleteRenamed, NotDoing
<1>8. Orderly(d) => disk[d].from = d /\ NameTags(d) # {} /\ n \in CommonFiles
  BY <1>1, <1>3, <1>5, TaggedOnDisk
<1>9. FilesShape'
  <2>1. disk' \in [DOMAIN disk' -> Contents]
    <3>1. disk' = [h \in DOMAIN disk' |-> disk'[h]]
      BY DEF DeleteRenamed, Without
    <3> QED
      BY <1>1, <1>6, <3>1 DEF FilesShape
  <2> QED
    BY <1>1, <1>4, <1>5, <1>6, <1>7, <2>1 DEF FilesShape, NotDoing
<1>10. DiskIsDerived'
  BY <1>1, <1>4, <1>6, TheSameFiles DEF DiskIsDerived, NameTags
<1>11. LinksAreKept'
  BY <1>1, <1>4, <1>6, TheSameFiles DEF LinksAreKept
<1>12. HandIsKept' /\ TextIsKept'
  BY <1>7 DEF HandIsKept, TextIsKept, Renaming
<1>13. NothingIsLost'
  <2> SUFFICES ASSUME NEW g \in CommonFiles, Orderly(g)
               PROVE  /\ Expected(g) # {} => \E h \in DOMAIN disk' : disk'[h].from \in Expected(g) /\ h \in Expected(g) \cup {g}
                      /\ g \in DOMAIN disk' /\ disk'[g].from = g =>
                            \A v \in VariantsOf(g) : v \in DOMAIN disk' /\ disk'[v].from = v
    BY <1>4, TheSameFiles DEF NothingIsLost
  <2>1. /\ Expected(g) # {} => \E h \in DOMAIN disk : disk[h].from \in Expected(g) /\ h \in Expected(g) \cup {g}
        /\ g \in DOMAIN disk /\ disk[g].from = g =>
              \A v \in VariantsOf(g) : v \in DOMAIN disk /\ disk[v].from = v
    BY <1>1 DEF NothingIsLost
  <2>2. CASE d \in Expected(g) \cup {g} \/ d \in VariantsOf(g)
    <3>1. Orderly(d) /\ n = g /\ n # d
      BY <1>1, <1>3, <1>5, <2>2, ExpectedIs, VariantIs
    <3>2. disk[g].from = d /\ g \in DOMAIN disk' /\ g # d
      BY <1>5, <1>6, <1>8, <3>1
    <3>3. d \in VariantsOf(g)
      BY <1>1, <2>2, <3>2, ExpectedIs
    <3>4. d \in Expected(g)
      BY <3>3 DEF Expected
    <3> QED
      BY <1>6, <3>2, <3>4
  <2>3. CASE d \notin Expected(g) \cup {g} /\ d \notin VariantsOf(g)
    BY <1>6, <2>1, <2>3
  <2> QED
    BY <2>2, <2>3
<1>14. BytesAreKept'
  <2> SUFFICES ASSUME NEW h \in DOMAIN disk'
               PROVE  /\ disk[h].bytes = "altered" => disk[h].from \in Binary
                      /\ Orderly(h) /\ LostAt(h) => disk[h].from # h /\ disk[h].from \in DOMAIN disk'
                      /\ Orderly(h) /\ disk[h].bytes = "altered" /\ NameTags(h) = {} => disk[h].from # h
    BY <1>4, <1>6, TheSameFiles DEF BytesAreKept, LostAt, NameTags
  <2>1. /\ disk[h].bytes = "altered" => disk[h].from \in Binary
        /\ Orderly(h) /\ LostAt(h) => disk[h].from # h /\ disk[h].from \in DOMAIN disk
        /\ Orderly(h) /\ disk[h].bytes = "altered" /\ NameTags(h) = {} => disk[h].from # h
    BY <1>1, <1>4, <1>6 DEF BytesAreKept, InHand
  <2>2. ASSUME Orderly(h), LostAt(h), disk[h].from # h, disk[h].from = d PROVE FALSE
    <3>1. d \in VariantsOf(h) /\ d.dir = h.dir /\ d.name[1] = h.name[1]
      BY <1>1, <1>6, <2>2 DEF DiskIsDerived
    <3>2. Common(d) = h /\ d \in original /\ Orderly(d)
      BY <2>2, <3>1, OrderlyTogether DEF VariantsOf
    <3>3. h \in CommonFiles
      BY <1>1, <3>2, AtFirst
    <3>4. n = h
      BY <1>1, <1>3, <2>2, <3>1, <3>3, VariantIs
    <3> QED
      BY <1>5, <2>2, <3>2, <3>4
  <2> QED
    BY <1>6, <2>1, <2>2
<1>15. ExcludedRemain'
  BY <1>1, <1>4, <1>5, <1>6 DEF ExcludedRemain, FirstContent
<1>16. PassGoesOn'
  BY <1>1, <1>2, <1>4, <1>6, <1>7, TheSameFiles DEF PassGoesOn, NameTags, Renaming
<1> QED
  BY <1>9, <1>10, <1>11, <1>12, <1>13, <1>14, <1>15, <1>16 DEF FilesIInv

LEMMA FilesBegin == FilesInit => FilesIInv
<1> SUFFICES ASSUME FilesInit PROVE FilesIInv
  OBVIOUS
<1>1. FilesKept /\ original \subseteq FileNames /\ DOMAIN disk = original
      /\ \A h \in original : disk[h] = FirstContent(h)
  BY FilesAssumption DEF FilesInit, FilesKept, FileNames, FilePaths
<1>2. \A h \in original : disk[h].from = h /\ disk[h].link = h /\ disk[h].bytes = "whole" /\ disk[h] \in Contents
  BY <1>1 DEF FirstContent, Contents
<1>3. doing = [file |-> None, step |-> "idle", text |-> NoText]
      /\ doing.step = "idle" /\ doing.file = None /\ left = {} /\ cut = {}
  BY DEF FilesInit, NotDoing
<1>4. FilesShape
  <2>1. disk \in [DOMAIN disk -> Contents]
    BY <1>1, <1>2 DEF FilesInit
  <2>2. target \in Targets
    BY DEF FilesInit
  <2> QED
    BY <1>1, <1>2, <1>3, <2>1, <2>2 DEF FilesShape, FilesKept
<1>5. DiskIsDerived
  BY <1>1, <1>2 DEF DiskIsDerived
<1>6. LinksAreKept
  BY <1>1, <1>2 DEF LinksAreKept
<1>7. HandIsKept /\ TextIsKept
  BY <1>3 DEF HandIsKept, TextIsKept, Renaming
<1>8. NothingIsLost
  BY <1>1, <1>2 DEF NothingIsLost, Expected, VariantsOf
<1>9. BytesAreKept
  BY <1>1, <1>2 DEF BytesAreKept, LostAt
<1>10. ExcludedRemain
  BY <1>1, <1>3 DEF ExcludedRemain
<1>11. PassGoesOn
  BY <1>3 DEF PassGoesOn
<1> QED
  BY <1>4, <1>5, <1>6, <1>7, <1>8, <1>9, <1>10, <1>11 DEF FilesIInv

\* A kill loses what is in memory, and says so.
LEMMA KilledKeeps ==
    ASSUME FilesIInv, Killed
    PROVE  FilesIInv'
<1>1. /\ FilesShape /\ DiskIsDerived /\ LinksAreKept /\ HandIsKept /\ TextIsKept /\ NothingIsLost /\ BytesAreKept
      /\ ExcludedRemain
  BY DEF FilesIInv
<1>2. UNCHANGED <<original, target, disk>> /\ left' = {}
      /\ doing' = [file |-> None, step |-> "killed", text |-> NoText] /\ doing'.step = "killed" /\ doing'.file = None
      /\ cut' = IF doing.step = "fixing" THEN cut \cup {doing.text.from} ELSE cut
  BY DEF Killed, NotDoing
<1>3. doing.step = "fixing" =>
        doing.file \in DOMAIN disk /\ disk[doing.file].from \in original /\ doing.text.from = disk[doing.file].from
  BY <1>1 DEF HandIsKept, TextIsKept, DiskIsDerived, Renaming
<1>4. FilesShape'
  BY <1>1, <1>2, <1>3 DEF FilesShape
<1>5. DiskIsDerived'
  <2>1. \A h : NameTags(h)' = NameTags(h)
    BY DEF NameTags
  <2> QED
    BY <1>1, <1>2, <2>1, TheSameFiles DEF DiskIsDerived
<1>6. LinksAreKept'
  BY <1>1, <1>2, TheSameFiles DEF LinksAreKept
<1>7. HandIsKept' /\ TextIsKept'
  BY <1>2 DEF HandIsKept, TextIsKept, Renaming
<1>8. NothingIsLost'
  BY <1>1, <1>2, TheSameFiles DEF NothingIsLost
<1>9. BytesAreKept'
  <2> SUFFICES ASSUME NEW h \in DOMAIN disk
               PROVE  /\ disk[h].bytes = "altered" => disk[h].from \in Binary
                      /\ Orderly(h) /\ LostAt(h)' => disk[h].from # h /\ disk[h].from \in DOMAIN disk
                      /\ Orderly(h) /\ disk[h].bytes = "altered" /\ NameTags(h) = {} => disk[h].from # h
    BY <1>2, TheSameFiles DEF BytesAreKept, NameTags
  <2>1. LostAt(h)' => LostAt(h) /\ ~ InHand(h)
    BY <1>2, <1>3 DEF LostAt, InHand
  <2> QED
    BY <1>1, <2>1 DEF BytesAreKept
<1>10. ExcludedRemain'
  BY <1>1, <1>2 DEF ExcludedRemain, FirstContent
<1>11. PassGoesOn'
  BY <1>2 DEF PassGoesOn
<1> QED
  BY <1>4, <1>5, <1>6, <1>7, <1>8, <1>9, <1>10, <1>11 DEF FilesIInv

LEMMA FilesStep == FilesIInv /\ [FilesNext]_filesVars => FilesIInv'
<1> SUFFICES ASSUME FilesIInv, [FilesNext]_filesVars PROVE FilesIInv'
  OBVIOUS
<1>1. FilesShape /\ HandIsKept /\ TextIsKept /\ BytesAreKept /\ ExcludedRemain /\ PassGoesOn
  BY DEF FilesIInv
<1>2. ASSUME UNCHANGED <<original, target, disk, cut>>, doing.step # "fixing",
             FilesShape', HandIsKept', TextIsKept', ExcludedRemain', PassGoesOn' PROVE FilesIInv'
  BY <1>2, DiskRemains DEF FilesIInv
<1>3. CASE ProcessFiles
  <2>1. UNCHANGED <<original, target, disk, cut>> /\ left' = Listed /\ doing' = NotDoing
        /\ doing'.step = "next" /\ doing'.file = None /\ doing.step # "fixing"
    BY <1>3 DEF ProcessFiles, NotDoing
  <2>2. \A h : h \in left' <=> h \in DOMAIN disk /\ h.dir \notin target.excludedDirs
    BY <2>1 DEF Listed
  <2>3. FilesShape'
    BY <1>1, <2>1, <2>2 DEF FilesShape, NotDoing
  <2>4. HandIsKept' /\ TextIsKept'
    BY <2>1 DEF HandIsKept, TextIsKept, Renaming
  <2>5. ExcludedRemain'
    BY <1>1, <2>1, <2>2 DEF ExcludedRemain, FirstContent
  <2>6. PassGoesOn'
    BY <2>1, <2>2 DEF PassGoesOn
  <2> QED
    BY <1>2, <2>1, <2>3, <2>4, <2>5, <2>6
<1>4. CASE Prepared
  <2>1. UNCHANGED <<original, target, disk, left, cut>> /\ left = {} /\ doing.step = "next"
        /\ doing' = [file |-> None, step |-> "prepared", text |-> NoText] /\ doing'.step = "prepared" /\ doing'.file = None
    BY <1>4 DEF Prepared, NotDoing
  <2>2. FilesShape'
    BY <1>1, <2>1 DEF FilesShape
  <2>3. HandIsKept' /\ TextIsKept'
    BY <2>1 DEF HandIsKept, TextIsKept, Renaming
  <2>4. ExcludedRemain'
    BY <1>1, <2>1 DEF ExcludedRemain, FirstContent
  <2>5. PassGoesOn'
    BY <1>1, <2>1, TheSameFiles DEF PassGoesOn, Renaming, NameTags
  <2> QED
    BY <1>2, <2>1, <2>2, <2>3, <2>4, <2>5
<1>5. CASE UNCHANGED filesVars
  <2>1. UNCHANGED <<original, target, disk, left, doing, cut>>
    BY <1>5 DEF filesVars
  <2>2. FilesShape'
    BY <1>1, <2>1 DEF FilesShape
  <2>3. /\ OnDevice(doing.file)' = OnDevice(doing.file) /\ ProjectFileInfo(doing.file)' = ProjectFileInfo(doing.file)
        /\ HasLinks(OnDevice(doing.file))' <=> HasLinks(OnDevice(doing.file))
        /\ Orderly(doing.file)' <=> Orderly(doing.file)
        /\ LostAt(OnDevice(doing.file))' <=> LostAt(OnDevice(doing.file))
    BY <2>1, HandAfter DEF LostAt
  <2>4. HandIsKept'
    BY <1>1, <2>1, <2>3 DEF HandIsKept
  <2>5. TextIsKept'
    BY <1>1, <2>1, <2>3 DEF TextIsKept
  <2>6. ExcludedRemain'
    BY <1>1, <2>1 DEF ExcludedRemain, FirstContent
  <2>7. PassGoesOn'
    BY <1>1, <2>1, TheSameFiles DEF PassGoesOn, NameTags
  <2>8. DiskIsDerived' /\ LinksAreKept' /\ NothingIsLost'
    BY <2>1, TheSameFiles DEF FilesIInv, DiskIsDerived, LinksAreKept, NothingIsLost
  <2>9. BytesAreKept'
    <3>1. \A h : (LostAt(h)' <=> LostAt(h)) /\ (InHand(h)' <=> InHand(h)) /\ NameTags(h)' = NameTags(h)
      BY <2>1 DEF LostAt, InHand, NameTags
    <3> QED
      BY <1>1, <2>1, <3>1, TheSameFiles DEF BytesAreKept
  <2> QED
    BY <2>2, <2>4, <2>5, <2>6, <2>7, <2>8, <2>9 DEF FilesIInv
<1> QED
  BY <1>3, <1>4, <1>5, NextFileKeeps, FixLinksKeeps, LinksFixedKeeps, WriteRenamedKeeps, RenamedWrittenKeeps,
     DeleteRenamedKeeps, KilledKeeps DEF FilesNext

\* The inductive invariant of the preparation of the files.
THEOREM ProjectFilesInvariant == FilesSpec => []FilesIInv
<1> QED
  BY FilesBegin, FilesStep, PTL DEF FilesSpec

\* What is on the disk is from a file of the project, in the same directory, and the
\* file in hand and those left are there.
THEOREM ProjectFilesTypeCorrect == FilesSpec => []FilesTypeOK
<1>1. FilesIInv => FilesTypeOK
  <2> SUFFICES ASSUME FilesIInv PROVE FilesTypeOK
    OBVIOUS
  <2>1. FilesShape /\ DiskIsDerived /\ HandIsKept
    BY DEF FilesIInv
  <2>2. doing.file = None \/ doing.file \in DOMAIN disk
    BY <2>1 DEF HandIsKept
  <2>3. \A h \in DOMAIN disk : disk[h].bytes \in {"whole", "altered", "torn"}
    BY <2>1 DEF FilesShape, Contents
  <2> QED
    BY <2>1, <2>2, <2>3 DEF FilesShape, DiskIsDerived, Renaming, FilesTypeOK
<1> QED
  BY <1>1, ProjectFilesInvariant, PTL

\* Whatever the order of the listing and wherever a pass is killed: a file without a
\* tag ends as what the target has of it, with the content of a variant if there is
\* one and its links renamed, and on the way the content is in one of them or in
\* memory.  What a kill in the middle of a rewriting in place cuts short is lost
\* (project-files-manager.ts:75), the bytes of what is not text are altered by its
\* renaming (line 79), and nothing else is; an excluded directory is not touched.
THEOREM ProjectFilesAreTheTargets == FilesSpec => []FilesAreTheTargets
<1>1. FilesIInv => FilesAreTheTargets
  <2> SUFFICES ASSUME FilesIInv PROVE FilesAreTheTargets
    OBVIOUS
  <2>1. /\ FilesShape /\ DiskIsDerived /\ LinksAreKept /\ HandIsKept /\ NothingIsLost /\ BytesAreKept
        /\ ExcludedRemain /\ PassGoesOn /\ FilesKept
    BY DEF FilesIInv, FilesShape, FilesKept
  <2>2. ASSUME NEW f \in CommonFiles, Alone(f), f.dir \notin target.excludedDirs
        PROVE  /\ Expected(f) # {} =>
                    \E h \in DOMAIN disk \cap (Expected(f) \cup {f}) :
                        disk[h].from \in Expected(f) /\ (LostAt(h) => InHand(h))
               /\ doing.step = "prepared" =>
                    /\ f \in DOMAIN disk <=> Expected(f) # {}
                    /\ f \in DOMAIN disk =>
                          /\ disk[f].from \in Expected(f) /\ ~ LostAt(f) /\ (HasLinks(f) => disk[f].link = f)
                          /\ disk[f].bytes = "altered" => disk[f].from \in Binary \ {f}
                    /\ \A g \in original : Common(g) = f /\ g # f => g \notin DOMAIN disk
    <3>1. f \in FileNames /\ Tags(f.dir, TagValues) = {} /\ NameTags(f) = {} /\ OnDevice(f) = f /\ Orderly(f)
      BY <2>1, <2>2, CommonFileIs DEF Orderly
    <3>2. Expected(f) # {} => \E h \in DOMAIN disk : disk[h].from \in Expected(f) /\ h \in Expected(f) \cup {f}
      BY <2>1, <2>2, <3>1 DEF NothingIsLost
    <3>3. ASSUME NEW h \in DOMAIN disk, disk[h].from \in Expected(f), h \in Expected(f) \cup {f}, LostAt(h), ~ InHand(h)
          PROVE  \E g \in DOMAIN disk \cap (Expected(f) \cup {f}) : disk[g].from \in Expected(f) /\ (LostAt(g) => InHand(g))
      <4>1. Orderly(h)
        BY <2>1, <2>2, <3>1, <3>3, ExpectedIs
      <4>2. disk[h].from # h /\ disk[h].from \in DOMAIN disk /\ NameTags(h) = {} /\ disk[h].from \in VariantsOf(h)
        BY <2>1, <3>3, <4>1 DEF BytesAreKept, DiskIsDerived
      <4>3. h = f
        BY <2>1, <2>2, <3>1, <3>3, <4>2, ExpectedIs, VariantIs
      <4> DEFINE g == disk[h].from
      <4>4. g \in VariantsOf(f) /\ g \in DOMAIN disk /\ g \in Expected(f)
        BY <3>3, <4>2, <4>3
      <4> HIDE DEF g
      <4>5. Orderly(g) /\ NameTags(g) # {}
        BY <2>1, <2>2, <3>1, <4>4, VariantIs
      <4>6. disk[g].from = g
        BY <2>1, <4>4, <4>5 DEF DiskIsDerived
      <4>7. LostAt(g) => InHand(g)
        BY <2>1, <4>4, <4>5, <4>6 DEF BytesAreKept
      <4> QED
        BY <4>4, <4>6, <4>7
    <3>4. Expected(f) # {} =>
              \E h \in DOMAIN disk \cap (Expected(f) \cup {f}) :
                  disk[h].from \in Expected(f) /\ (LostAt(h) => InHand(h))
      BY <3>2, <3>3
    <3> SUFFICES ASSUME doing.step = "prepared"
                 PROVE  /\ f \in DOMAIN disk <=> Expected(f) # {}
                        /\ f \in DOMAIN disk =>
                              /\ disk[f].from \in Expected(f) /\ ~ LostAt(f) /\ (HasLinks(f) => disk[f].link = f)
                              /\ disk[f].bytes = "altered" => disk[f].from \in Binary \ {f}
                        /\ \A g \in original : Common(g) = f /\ g # f => g \notin DOMAIN disk
      BY <3>4
    <3>5. \A h \in DOMAIN disk : Orderly(h) /\ h.dir = f.dir => NameTags(h) = {}
      BY <2>1, <2>2 DEF HandIsKept, PassGoesOn, Renaming
    <3>6. ASSUME NEW h \in VariantsOf(f), h \in DOMAIN disk PROVE FALSE
      <4>1. NameTags(h) # {} /\ Orderly(h) /\ OnDevice(h) = f /\ h \in FileNames
        BY <2>1, <2>2, <3>1, <3>6, VariantIs
      <4>2. h.dir = f.dir
        BY <4>1, NameOnDevice
      <4> QED
        BY <3>5, <3>6, <4>1, <4>2
    <3>7. \A h \in Expected(f) : h # f => h \notin DOMAIN disk
      BY <3>6 DEF Expected
    <3>8. f \in DOMAIN disk => disk[f].from \in Expected(f)
      <4> SUFFICES ASSUME f \in DOMAIN disk PROVE disk[f].from \in Expected(f)
        OBVIOUS
      <4>1. disk[f].from \in original /\ (disk[f].from = f \/ disk[f].from \in VariantsOf(f))
        BY <2>1, <3>1 DEF DiskIsDerived
      <4>2. CASE disk[f].from \in VariantsOf(f)
        BY <4>2 DEF Expected
      <4>3. CASE disk[f].from = f
        <5>1. \A g \in VariantsOf(f) : g \in DOMAIN disk
          BY <2>1, <2>2, <3>1, <4>3 DEF NothingIsLost
        <5>2. VariantsOf(f) = {}
          BY <3>6, <5>1
        <5> QED
          BY <4>1, <4>3, <5>2 DEF Expected
      <4> QED
        BY <4>1, <4>2, <4>3
    <3>9. f \in DOMAIN disk <=> Expected(f) # {}
      BY <3>2, <3>7, <3>8
    <3>10. f \in DOMAIN disk /\ HasLinks(f) => disk[f].link = f
      BY <2>1, <3>1 DEF LinksAreKept
    <3>11. f \in DOMAIN disk => ~ LostAt(f)
      <4> SUFFICES ASSUME f \in DOMAIN disk, LostAt(f) PROVE FALSE
        OBVIOUS
      <4>1. disk[f].from # f /\ disk[f].from \in DOMAIN disk
        BY <2>1, <3>1 DEF BytesAreKept, InHand
      <4>2. disk[f].from \in VariantsOf(f)
        BY <2>1, <3>1, <4>1 DEF DiskIsDerived
      <4> QED
        BY <3>6, <4>1, <4>2
    <3>12. f \in DOMAIN disk /\ disk[f].bytes = "altered" => disk[f].from \in Binary \ {f}
      BY <2>1, <3>1 DEF BytesAreKept
    <3>13. ASSUME NEW g \in original, Common(g) = f, g # f, g \in DOMAIN disk PROVE FALSE
      <4>1. g \in FileNames /\ Cardinality(AllTags(g)) = 1 /\ Tags(g.dir, TagValues) = {}
        BY <2>1, <3>13 DEF FilesShape, Common, TagValues
      <4>2. PICK i : NameTags(g) = {i}
        BY <4>1, FewTags
      <4>3. g.dir = f.dir /\ g.name[1] = f.name[1]
        BY <2>1, <3>13, <4>1, <4>2, WithOneTag DEF FilesKept
      <4> QED
        BY <3>1, <3>5, <3>13, <4>2, <4>3, OrderlyTogether
    <3> QED
      BY <3>8, <3>9, <3>10, <3>11, <3>12, <3>13
  <2>3. ASSUME NEW f \in original, f.dir \in target.excludedDirs PROVE f \in DOMAIN disk /\ disk[f] = FirstContent(f)
    BY <2>1, <2>3 DEF ExcludedRemain
  <2> QED
    BY <2>2, <2>3 DEF FilesAreTheTargets, LostAt, InHand
<1> QED
  BY <1>1, ProjectFilesInvariant, PTL

-----------------------------------------------------------------------------
(***************************************************************************)
(* What is sent.  The rules are gone through one after the other, so the   *)
(* last that matches a file decides, and each after it leaves it as it is. *)
(***************************************************************************)
Rules == [negated : BOOLEAN, matches : SUBSET FilePaths]
Matching(f) == {i \in DOMAIN rules : f \in rules[i].matches}

\* The loop of isFileExcluded.
LEMMA FileMatchedIs ==
    ASSUME rules \in Seq(Rules), NEW f
    PROVE  /\ FileMatched(f)[0] = TRUE
           /\ \A n \in 1 .. Len(rules) :
                FileMatched(f)[n] = IF f \notin rules[n].matches THEN FileMatched(f)[n - 1] ELSE rules[n].negated
<1> DEFINE N == Len(rules)
           step == [n \in 1 .. N |-> [v \in BOOLEAN |-> IF f \notin rules[n].matches THEN v ELSE rules[n].negated]]
           IsLoop(m) == m = [n \in 0 .. N |-> IF n = 0 THEN TRUE
                                              ELSE IF f \notin rules[n].matches THEN m[n - 1]
                                              ELSE rules[n].negated]
<1>1. N \in Nat /\ \A n \in 1 .. N : rules[n].negated \in BOOLEAN
  <2>1. N \in Nat /\ \A n \in 1 .. N : rules[n] \in Rules
    OBVIOUS
  <2> QED
    BY <2>1 DEF Rules
<1>2. step \in [1 .. N -> [BOOLEAN -> BOOLEAN]]
  BY <1>1
<1>3. PICK m \in [0 .. N -> BOOLEAN] : m[0] = TRUE /\ \A n \in 1 .. N : m[n] = step[n][m[n - 1]]
  <2> DEFINE S == BOOLEAN
             base == TRUE
  <2>1. LoopOn(N, S, base, step)
    BY <1>1, <1>2 DEF LoopOn
  <2> HIDE DEF N, step, S, base
  <2>2. \E m \in [0 .. N -> S] : m[0] = base /\ \A n \in 1 .. N : m[n] = step[n][m[n - 1]]
    BY ONLY <2>1, LoopExists
  <2> QED
    BY <2>2 DEF S, base
<1>4. IsLoop(m)
  <2>1. ASSUME NEW n \in 1 .. N
        PROVE  step[n][m[n - 1]] = IF f \notin rules[n].matches THEN m[n - 1] ELSE rules[n].negated
    <3>1. m[n - 1] \in BOOLEAN
      <4>1. n - 1 \in 0 .. N
        BY <1>1
      <4> QED
        BY <4>1
    <3> QED
      BY <3>1
  <2> HIDE DEF N, step
  <2>2. \A n \in 0 .. N : n # 0 => n \in 1 .. N
    BY <1>1
  <2>3. \A n \in 0 .. N : m[n] = IF n = 0 THEN TRUE
                                 ELSE IF f \notin rules[n].matches THEN m[n - 1]
                                 ELSE rules[n].negated
    BY <1>3, <2>1, <2>2
  <2> QED
    BY <1>3, <2>3
<1>5. FileMatched(f) = CHOOSE g : IsLoop(g)
  BY DEF FileMatched
<1>6. IsLoop(FileMatched(f))
  <2> HIDE DEF IsLoop
  <2> QED
    BY <1>4, <1>5
<1> DEFINE g == FileMatched(f)
<1>7. g = [n \in 0 .. N |-> IF n = 0 THEN TRUE ELSE IF f \notin rules[n].matches THEN g[n - 1] ELSE rules[n].negated]
  BY <1>6
<1> HIDE DEF g
<1>8. 0 \in 0 .. N /\ \A n \in 1 .. N : n \in 0 .. N /\ n # 0
  BY <1>1
<1>9. g[0] = TRUE /\ \A n \in 1 .. N : g[n] = IF f \notin rules[n].matches THEN g[n - 1] ELSE rules[n].negated
  <2> HIDE DEF N
  <2> QED
    BY <1>7, <1>8
<1> QED
  BY <1>9 DEF g

LEMMA LastRuleDecides ==
    ASSUME rules \in Seq(Rules), NEW f
    PROVE  ~ FileMatched(f)[Len(rules)] <=> Matching(f) # {} /\ ~ rules[Max(Matching(f))].negated
<1> DEFINE N == Len(rules)
           m == FileMatched(f)
           M == Matching(f)
           last == IF M = {} THEN 0 ELSE Max(M)
<1>1. N \in Nat /\ DOMAIN rules = 1 .. N
  OBVIOUS
<1>2. m[0] = TRUE /\ \A n \in 1 .. N : m[n] = IF f \notin rules[n].matches THEN m[n - 1] ELSE rules[n].negated
  BY FileMatchedIs
<1>3. M \in SUBSET (0 .. N) /\ M \in SUBSET (1 .. N) /\ \A n \in 1 .. N : n \in M <=> f \in rules[n].matches
  BY <1>1 DEF Matching
<1> HIDE DEF m, M
<1>4. M # {} => Max(M) \in M /\ \A n \in M : n <= Max(M)
  BY <1>1, <1>3, LargestNumber
<1>5. last \in 0 .. N /\ \A n \in 1 .. N : n > last => n \notin M
  <2>1. CASE M = {}
    BY <1>1, <2>1
  <2>2. CASE M # {}
    <3>1. last \in M /\ \A n \in M : n <= last
      BY <1>4, <2>2
    <3> HIDE DEF last
    <3>2. last \in 1 .. N
      BY <1>3, <3>1
    <3>3. ASSUME NEW n \in 1 .. N, n > last, n \in M PROVE FALSE
      <4>1. n <= last
        BY <3>1, <3>3
      <4> QED
        BY <1>1, <3>2, <3>3, <4>1
    <3> QED
      BY <1>1, <3>2, <3>3
  <2> QED
    BY <2>1, <2>2
<1>6. m[last] = IF M = {} THEN TRUE ELSE rules[last].negated
  BY <1>2, <1>3, <1>4
<1> HIDE DEF last, N
<1> DEFINE P == {n \in 0 .. N : n >= last => m[n] = m[last]}
<1>7. m[N] = m[last]
  <2>1. 0 \in P
    BY <1>1, <1>5
  <2>2. ASSUME NEW n \in 1 .. N, n - 1 \in P PROVE n \in P
    <3>1. CASE n > last
      <4>1. m[n] = m[n - 1] /\ n - 1 >= last
        BY <1>2, <1>3, <1>5, <3>1
      <4> QED
        BY <1>1, <2>2, <4>1
    <3>2. CASE ~ (n > last)
      BY <1>1, <1>5, <3>2
    <3> QED
      BY <3>1, <3>2
  <2>3. N \in P
    <3> HIDE DEF P
    <3>1. \A n \in 0 .. N : n \in P
      BY <1>1, <2>1, <2>2, RoundAfterRound
    <3> QED
      BY <1>1, <3>1
  <2> QED
    BY <1>1, <1>5, <2>3
<1> QED
  BY <1>6, <1>7 DEF m, M, N, last

\* The rules in force are never changed.
LEMMA RulesRemain == FilesSpec => [](rules \in Seq(Rules))
<1>1. FilesInit => rules \in Seq(Rules)
  BY FilesAssumption DEF FilesInit, Rules
<1>2. rules \in Seq(Rules) /\ [FilesNext]_filesVars => (rules \in Seq(Rules))'
  BY DEF FilesNext, filesVars, ProcessFiles, NextFile, FixLinks, LinksFixed, WriteRenamed, RenamedWritten, DeleteRenamed,
         Prepared, Killed
<1> QED
  BY <1>1, <1>2, PTL DEF FilesSpec

\* What is sent once the files are prepared is, under its own name, every file that
\* neither the caller's patterns nor the last matching rule take out, in a directory
\* that they do not take out either (path-filtering.ts isFileExcluded, and
\* project-files-manager.ts getProjectFiles, which does not enter such a directory,
\* and createLocalToDevicePaths), for any files and lists of rules.
THEOREM ProjectFilesSentFollowsTheRules == FilesSpec => []SentFollowsTheRules
<1>1. FilesIInv /\ FilesAreTheTargets /\ rules \in Seq(Rules) => SentFollowsTheRules
  <2> DEFINE Ignored(path) == \/ path \in target.excludedFiles
                              \/ Matching(path) # {} /\ ~ rules[Max(Matching(path))].negated
  <2> SUFFICES ASSUME FilesIInv, FilesAreTheTargets, rules \in Seq(Rules),
                      NEW f \in CommonFiles, Alone(f), f.dir \notin target.excludedDirs, doing.step = "prepared"
               PROVE  {p[2] : p \in {q \in LocalToDevicePaths : q[1] = f}}
                        = IF Expected(f) # {} /\ ~ Ignored(f) /\ (f.dir # <<>> => ~ Ignored(DirectoryOf(f))) THEN {f} ELSE {}
    BY DEF SentFollowsTheRules, Matching
  <2>1. FilesKept
    BY DEF FilesIInv, FilesShape, FilesKept
  <2>2. OnDevice(f) = f /\ ProjectFileInfo(f).included
    BY <2>1, CommonFileIs
  <2>3. f \in DOMAIN disk <=> Expected(f) # {}
    BY DEF FilesAreTheTargets
  <2>4. \A path : IsFileExcluded(path) <=> Ignored(path)
    BY LastRuleDecides DEF IsFileExcluded
  <2>5. PICK g \in original : f = Common(g) /\ f.dir = g.dir
    <3>1. PICK g \in original : Cardinality(AllTags(g)) <= 1 /\ Tags(g.dir, TagValues) = {} /\ f = Common(g)
      BY DEF CommonFiles, TagValues
    <3>2. g \in FileNames
      BY <2>1, <3>1, FilesAssumption DEF FilesKept, FileNames, FilePaths
    <3>3. NameTags(g) = {} \/ \E i : NameTags(g) = {i}
      BY <3>1, <3>2, FewTags
    <3>4. f.dir = g.dir
      <4>1. CASE NameTags(g) = {}
        BY <3>1, <3>2, <4>1, WithoutATag
      <4>2. CASE \E i : NameTags(g) = {i}
        BY <2>1, <3>1, <3>2, <4>2, WithOneTag DEF FilesKept
      <4> QED
        BY <3>3, <4>1, <4>2
    <3> QED
      BY <3>1, <3>4
  <2>6. \A h \in original : f # DirectoryOf(h)
    BY <2>1, <2>5, DirectoriesAssumption DEF FilesKept
  <2> DEFINE entered == {d \in {DirectoryOf(h) : h \in original} : d.name = <<>> \/ ~ IsFileExcluded(d)}
             goes == f \in DOMAIN disk /\ ~ IsFileExcluded(f) /\ DirectoryOf(f) \in entered
             its == {q \in LocalToDevicePaths : q[1] = f}
  <2>7. DirectoryOf(f) \in entered <=> (f.dir # <<>> => ~ Ignored(DirectoryOf(f)))
    <3>1. DirectoryOf(f) = DirectoryOf(g) /\ DirectoryOf(f).name = f.dir
      BY <2>5 DEF DirectoryOf
    <3> HIDE DEF Ignored
    <3> QED
      BY <2>4, <2>5, <3>1
  <2>8. f \in ProjectFilesLeft <=> goes
    <3>1. f \notin entered
      BY <2>6
    <3> QED
      BY <3>1 DEF ProjectFilesLeft
  <2> HIDE DEF goes, entered, Ignored
  <2>9. its = IF goes THEN {<<f, f>>} ELSE {}
    BY <2>2, <2>8 DEF LocalToDevicePaths
  <2>10. {p[2] : p \in its} = IF goes THEN {f} ELSE {}
    <3>1. CASE goes
      <4>1. {p[2] : p \in {<<f, f>>}} = {f}
        OBVIOUS
      <4> HIDE DEF its
      <4> QED
        BY <2>9, <3>1, <4>1
    <3>2. CASE ~ goes
      <4> HIDE DEF its
      <4> QED
        BY <2>9, <3>2
    <3> QED
      BY <3>1, <3>2
  <2>11. goes <=> Expected(f) # {} /\ ~ Ignored(f) /\ (f.dir # <<>> => ~ Ignored(DirectoryOf(f)))
    BY <2>3, <2>4, <2>7 DEF goes
  <2> QED
    BY <2>10, <2>11
<1> QED
  BY <1>1, ProjectFilesInvariant, ProjectFilesAreTheTargets, RulesRemain, PTL

-----------------------------------------------------------------------------
(***************************************************************************)
(* Side by side.                                                           *)
(***************************************************************************)

\* Side by side the components do what each does by itself: what is proved of one
\* holds of the command line as it is checked.
THEOREM CommandLineImplements ==
    MCSpec => CommandsSpec /\ AnalyticsSpec /\ HttpSpec /\ NpmSpec /\ TypeScriptSpec /\ FilesSpec /\ PluginsSpec
<1>1. MCInit => CommandsInit /\ AnalyticsInit /\ HttpInit /\ NpmInit /\ TypeScriptInit /\ PluginsInit /\ FilesInit
  BY DEF MCInit
<1>2. [MCNext]_<<focus, commandLineVars>>
        => /\ [CommandsNext]_commandsVars /\ [AnalyticsNext]_analyticsVars /\ [HttpNext]_httpVars /\ [NpmNext]_npmVars
           /\ [TypeScriptNext]_typeScriptVars /\ [PluginsNext]_pluginsVars /\ [FilesNext]_filesVars
  BY DEF MCNext, commandLineVars
<1> QED
  BY <1>1, <1>2, PTL DEF MCSpec, CommandsSpec, AnalyticsSpec, HttpSpec, NpmSpec, TypeScriptSpec, FilesSpec, PluginsSpec

\* Side by side they keep their types.
THEOREM CommandLineTypeCorrect == MCSpec => []CommandLineTypeOK
<1>1. (CommandsTypeOK /\ AnalyticsTypeOK /\ HttpTypeOK /\ NpmTypeOK /\ TypeScriptTypeOK /\ FilesTypeOK /\ PluginsTypeOK)
        => CommandLineTypeOK
  BY DEF CommandLineTypeOK
<1> QED
  BY <1>1, CommandLineImplements, CommandsTypeCorrect, AnalyticsTypeCorrect, HttpTypeCorrect, NpmTypeCorrect,
     TypeScriptTypeCorrect, ProjectFilesTypeCorrect, PluginsTypeCorrect, PTL

=============================================================================
