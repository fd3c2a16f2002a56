---------------------- MODULE ApplicationManagerProofs ----------------------
(***************************************************************************)
(* ApplicationManager for any applications, views and callers: the check   *)
(* for updates implements SharedPromise, the events add up to what the     *)
(* manager knows, and a check of one's own gives a fresh answer.           *)
(*                                                                         *)
(* The invariant follows the one check in flight: the list it has read was *)
(* true since its starter asked, in full or of what it names, and the      *)
(* applications whose views it asks for are those told as debuggable.      *)
(***************************************************************************)
EXTENDS ApplicationManager, TLAPS

DeviceOK ==
    /\ installed \subseteq Apps /\ running \subseteq installed
    /\ pages \in [Apps -> ViewLists]
    /\ changes \in 0 .. MaxChanges

\* What the manager keeps is what a subscriber has heard; views are those of debuggable applications.
CachedOK ==
    /\ lastApps \subseteq Apps /\ lastDebug \subseteq Apps
    /\ lastViews \in [Apps -> ViewLists]
    /\ heard = [apps |-> lastApps, debug |-> lastDebug, views |-> lastViews]
    /\ \A a \in Apps : lastViews[a] # {} => a \in lastDebug

\* The check in flight is the one in the promise; its views are of applications told as debuggable.
ChecksOK ==
    /\ promise \in Slots \cup {None}
    /\ checks \in [Slots -> [at : Steps, list : SUBSET Apps, views : [Apps -> ViewLists], cut : BOOLEAN]]
    /\ \A s \in Slots : checks[s].at # "free" <=> promise = s
    /\ \A s \in Slots : checks[s].at \in {"views", "viewsRead"} => checks[s].list \subseteq lastDebug

WaitsOK ==
    /\ waits \in [Callers -> Slots \cup {None}]
    /\ \A c \in Callers : waits[c] # None => waits[c] = promise
    /\ asked \in [Askers -> Apps]
    /\ possible \in [Askers -> SUBSET BOOLEAN]
    /\ fresh \in [Askers -> BOOLEAN]
    /\ misled \in [Askers -> BOOLEAN]
    /\ answer \in [Askers -> {"none", "yes", "no", "error"}]
    /\ \A c \in Askers : waits[c] # None => answer[c] = "none"

\* What a list says of the application of c was true since c asked, except that it may
\* lack it when it was cut short.
Supports(c, list, cut) ==
    /\ asked[c] \in list => TRUE \in possible[c]
    /\ asked[c] \notin list => cut \/ FALSE \in possible[c]

\* What the check that c started knows of the application of c was true since c asked.
FreshOK ==
    \A c \in Askers : fresh[c] =>
        /\ answer[c] = "yes" => TRUE \in possible[c]
        /\ answer[c] = "no" => misled[c] \/ FALSE \in possible[c]
        /\ \A s \in Slots : waits[c] = s =>
              /\ (asked[c] \in installed) \in possible[c]
              /\ checks[s].at = "appsRead" => Supports(c, checks[s].list, checks[s].cut)
              /\ checks[s].at \notin {"apps", "appsRead"} => Supports(c, lastApps, checks[s].cut)

ManagerIInv == DeviceOK /\ CachedOK /\ ChecksOK /\ WaitsOK /\ FreshOK

-----------------------------------------------------------------------------
\* An application may have no views.
LEMMA NoViewsIsTyped == NoViews \in [Apps -> ViewLists]
BY DEF NoViews, ViewLists

\* The invariant holds before the first check.
LEMMA ManagerInitIInv == Init => ManagerIInv
<1> SUFFICES ASSUME Init PROVE ManagerIInv
  OBVIOUS
<1>1. DeviceOK
  BY NoViewsIsTyped, ManagerAssumption DEF Init, DeviceOK
<1>2. CachedOK
  BY NoViewsIsTyped DEF Init, CachedOK, NoViews
<1>3. Free \in [at : Steps, list : SUBSET Apps, views : [Apps -> ViewLists], cut : BOOLEAN] /\ Free.at = "free"
  BY NoViewsIsTyped DEF Free, Steps, NoViews
<1>4. ChecksOK
  BY <1>3, ManagerAssumption DEF Init, ChecksOK
<1>5. WaitsOK /\ FreshOK
  BY ManagerAssumption DEF Init, WaitsOK, FreshOK, Callers
<1> QED
  BY <1>1, <1>2, <1>4, <1>5 DEF ManagerIInv

\* The events about the views of an application turn the previous list into the current one.
LEMMA EventsGiveTheList ==
    ASSUME NEW previous \in ViewLists, NEW current \in ViewLists
    PROVE  ViewsAfterEvents(previous, previous, current) = current
<1>1. ASSUME NEW v \in previous, v \notin current
      PROVE  \/ v.id \in ViewIdsOf({w \in previous : w.id \notin ViewIdsOf(current)})
             \/ v.id \in ViewIdsOf({w \in current : w.id \in ViewIdsOf(previous) /\ w \notin previous})
  <2>1. CASE v.id \in ViewIdsOf(current)
    <3>1. PICK w \in current : w.id = v.id
      BY <2>1 DEF ViewIdsOf
    <3>2. w \notin previous /\ w.id \in ViewIdsOf(previous)
      BY <1>1, <3>1 DEF ViewLists, ViewIdsOf
    <3> QED
      BY <3>1, <3>2 DEF ViewIdsOf
  <2>2. CASE v.id \notin ViewIdsOf(current)
    BY <1>1, <2>2 DEF ViewIdsOf
  <2> QED
    BY <2>1, <2>2
<1>2. ASSUME NEW v \in previous, v \in current
      PROVE  /\ v.id \notin ViewIdsOf({w \in previous : w.id \notin ViewIdsOf(current)})
             /\ v.id \notin ViewIdsOf({w \in current : w.id \in ViewIdsOf(previous) /\ w \notin previous})
  BY <1>2 DEF ViewIdsOf, ViewLists
<1>3. ASSUME NEW v \in current, v \notin previous
      PROVE  \/ v.id \notin ViewIdsOf(previous)
             \/ v \in {w \in current : w.id \in ViewIdsOf(previous) /\ w \notin previous}
  BY <1>3
<1> QED
  BY <1>1, <1>2, <1>3 DEF ViewsAfterEvents

-----------------------------------------------------------------------------
\* The device changes: what was possible since a call includes the present.
LEMMA DeviceChangesKeeps == ManagerIInv /\ DeviceChanges => ManagerIInv'
<1> SUFFICES ASSUME ManagerIInv, DeviceChanges PROVE ManagerIInv'
  OBVIOUS
<1>1. DeviceOK'
  <2>1. changes' \in 0 .. MaxChanges
    BY ManagerAssumption DEF ManagerIInv, DeviceOK, DeviceChanges
  <2>2. installed' \subseteq Apps /\ running' \subseteq installed'
    BY DEF ManagerIInv, DeviceOK, DeviceChanges
  <2>3. pages' \in [Apps -> ViewLists]
    BY DEF ManagerIInv, DeviceOK, DeviceChanges
  <2> QED
    BY <2>1, <2>2, <2>3 DEF DeviceOK
<1>2. UNCHANGED <<cached, promise, checks, waits, asked, fresh, misled, answer>>
  BY DEF DeviceChanges
<1>3. CachedOK' /\ ChecksOK'
  BY <1>2 DEF ManagerIInv, CachedOK, ChecksOK, cached
<1>4. \A c \in Askers : possible'[c] = IF waits[c] # None THEN possible[c] \cup {asked[c] \in installed'} ELSE possible[c]
  BY DEF DeviceChanges
<1>5. possible' \in [Askers -> SUBSET BOOLEAN]
  <2>1. ASSUME NEW c \in Askers PROVE possible[c] \cup {asked[c] \in installed'} \in SUBSET BOOLEAN
    <3>1. possible[c] \in SUBSET BOOLEAN
      BY DEF ManagerIInv, WaitsOK
    <3>2. (asked[c] \in installed') \in BOOLEAN
      OBVIOUS
    <3> QED
      BY <3>1, <3>2, Zenon
  <2>2. \A c \in Askers : possible[c] \in SUBSET BOOLEAN
    BY DEF ManagerIInv, WaitsOK
  <2> QED
    BY <2>1, <2>2, Zenon DEF DeviceChanges
<1>6. WaitsOK'
  BY <1>2, <1>5 DEF ManagerIInv, WaitsOK
<1>7. \A c \in Askers : /\ possible[c] \subseteq possible'[c]
                        /\ waits[c] # None => (asked[c] \in installed') \in possible'[c]
  <2> SUFFICES ASSUME NEW c \in Askers
               PROVE  possible[c] \subseteq possible'[c] /\ (waits[c] # None => (asked[c] \in installed') \in possible'[c])
    OBVIOUS
  <2>1. CASE waits[c] # None
    <3>1. possible'[c] = possible[c] \cup {asked[c] \in installed'}
      BY <1>4, <2>1
    <3> QED
      BY <3>1, Zenon
  <2>2. CASE waits[c] = None
    BY <1>4, <2>2
  <2> QED
    BY <2>1, <2>2
<1>8. ASSUME NEW c \in Askers, NEW s \in Slots, waits[c] = s PROVE waits[c] # None
  BY <1>8, ManagerAssumption
<1>9. FreshOK'
  BY <1>2, <1>7, <1>8 DEF ManagerIInv, FreshOK, Supports, cached
<1> QED
  BY <1>1, <1>3, <1>6, <1>9 DEF ManagerIInv

\* A caller joins the check in flight, or starts one when there is none.
LEMMA PromisedCheckKeeps ==
    ASSUME ManagerIInv, NEW c \in Callers, waits[c] = None, PromisedCheck(c), UNCHANGED lastDebug
    PROVE  /\ ChecksOK'
           /\ waits' = [waits EXCEPT ![c] = promise'] /\ promise' \in Slots
           /\ \A d \in Callers : waits[d] # None => waits[d] = promise'
           /\ promise # None => UNCHANGED <<promise, checks>>
           /\ promise = None => checks'[promise'].at = "apps"
<1>1. CASE promise # None
  BY <1>1 DEF ManagerIInv, ChecksOK, WaitsOK, PromisedCheck
<1>2. CASE promise = None
  <2>1. PICK s \in Slots : /\ checks' = [checks EXCEPT ![s] = [Free EXCEPT !.at = "apps"]]
                           /\ promise' = s /\ waits' = [waits EXCEPT ![c] = s]
    BY <1>2 DEF PromisedCheck
  <2>2. [Free EXCEPT !.at = "apps"] \in [at : Steps, list : SUBSET Apps, views : [Apps -> ViewLists], cut : BOOLEAN]
        /\ [Free EXCEPT !.at = "apps"].at = "apps"
    BY NoViewsIsTyped DEF Free, Steps, NoViews
  <2>3. \A t \in Slots : checks[t].at = "free"
    BY <1>2, ManagerAssumption DEF ManagerIInv, ChecksOK
  <2>4. ChecksOK'
    BY <2>1, <2>2, <2>3 DEF ManagerIInv, ChecksOK
  <2> QED
    BY <1>2, <2>1, <2>2, <2>4 DEF ManagerIInv, WaitsOK, ChecksOK
<1> QED
  BY <1>1, <1>2

\* The interval comes round: nobody's answer is concerned.
LEMMA IntervalKeeps == ManagerIInv /\ IntervalChecks => ManagerIInv'
<1> SUFFICES ASSUME ManagerIInv, IntervalChecks PROVE ManagerIInv'
  OBVIOUS
<1>1. UNCHANGED <<device, cached, asked, possible, fresh, misled, answer>> /\ Interval \in Callers /\ Interval \notin Askers
  BY ManagerAssumption DEF IntervalChecks, Callers
<1>2. DeviceOK' /\ CachedOK'
  BY <1>1 DEF ManagerIInv, DeviceOK, CachedOK, device, cached
<1>3. /\ ChecksOK'
      /\ waits' = [waits EXCEPT ![Interval] = promise'] /\ promise' \in Slots
      /\ \A d \in Callers : waits[d] # None => waits[d] = promise'
      /\ promise # None => UNCHANGED <<promise, checks>>
  BY <1>1, PromisedCheckKeeps DEF IntervalChecks, cached
<1>4. \A c \in Askers : c \in Callers /\ waits'[c] = waits[c]
  BY <1>1, <1>3 DEF ManagerIInv, WaitsOK, Callers
<1>5. WaitsOK'
  BY <1>1, <1>3, <1>4 DEF ManagerIInv, WaitsOK
<1>6. ASSUME NEW c \in Askers, NEW s \in Slots, waits[c] = s PROVE checks' = checks
  BY <1>3, <1>4, <1>6, ManagerAssumption DEF ManagerIInv, WaitsOK
<1>7. FreshOK'
  BY <1>1, <1>4, <1>6 DEF ManagerIInv, FreshOK, Supports, device, cached
<1> QED
  BY <1>2, <1>3, <1>5, <1>7 DEF ManagerIInv

\* An asker: when it starts its check, nothing has been read yet.
LEMMA AskKeeps ==
    ASSUME ManagerIInv, NEW c \in Askers, IsApplicationInstalled(c)
    PROVE  ManagerIInv'
<1>1. UNCHANGED <<device, cached>> /\ c \in Callers /\ waits[c] = None
  BY DEF IsApplicationInstalled, Callers
<1>2. DeviceOK' /\ CachedOK'
  BY <1>1 DEF ManagerIInv, DeviceOK, CachedOK, device, cached
<1>3. /\ ChecksOK'
      /\ waits' = [waits EXCEPT ![c] = promise'] /\ promise' \in Slots
      /\ \A d \in Callers : waits[d] # None => waits[d] = promise'
      /\ promise # None => UNCHANGED <<promise, checks>>
      /\ promise = None => checks'[promise'].at = "apps"
  BY <1>1, PromisedCheckKeeps DEF IsApplicationInstalled, cached
<1>4. PICK a \in Apps : asked' = [asked EXCEPT ![c] = a]
  BY DEF IsApplicationInstalled
<1>5. /\ possible' = [possible EXCEPT ![c] = {asked'[c] \in installed}]
      /\ fresh' = [fresh EXCEPT ![c] = (promise = None)]
      /\ misled' = [misled EXCEPT ![c] = FALSE]
      /\ answer' = [answer EXCEPT ![c] = "none"]
  BY DEF IsApplicationInstalled
<1>6. asked' \in [Askers -> Apps] /\ possible' \in [Askers -> SUBSET BOOLEAN] /\ fresh' \in [Askers -> BOOLEAN]
      /\ misled' \in [Askers -> BOOLEAN] /\ answer' \in [Askers -> {"none", "yes", "no", "error"}]
  BY <1>4, <1>5 DEF ManagerIInv, WaitsOK
<1>7. \A d \in Askers : d \in Callers /\ (d # c => /\ waits'[d] = waits[d] /\ answer'[d] = answer[d] /\ fresh'[d] = fresh[d] /\ misled'[d] = misled[d]
                                                   /\ possible'[d] = possible[d] /\ asked'[d] = asked[d])
  BY <1>3, <1>4, <1>5 DEF ManagerIInv, WaitsOK, Callers
<1>8. waits'[c] = promise' /\ answer'[c] = "none" /\ possible'[c] = {asked'[c] \in installed} /\ fresh'[c] = (promise = None)
  BY <1>1, <1>3, <1>5 DEF ManagerIInv, WaitsOK
<1>9. WaitsOK'
  BY <1>1, <1>3, <1>6, <1>7, <1>8 DEF ManagerIInv, WaitsOK
<1>10. ASSUME NEW d \in Askers, NEW s \in Slots, waits[d] = s PROVE checks' = checks
  BY <1>3, <1>7, <1>10, ManagerAssumption DEF ManagerIInv, WaitsOK
<1>11. ASSUME NEW d \in Askers, fresh'[d]
       PROVE  /\ answer'[d] = "yes" => TRUE \in possible'[d]
              /\ answer'[d] = "no" => misled'[d] \/ FALSE \in possible'[d]
              /\ \A s \in Slots : waits'[d] = s =>
                    /\ (asked'[d] \in installed') \in possible'[d]
                    /\ checks'[s].at = "appsRead" => Supports(d, checks[s].list, checks[s].cut)'
                    /\ checks'[s].at \notin {"apps", "appsRead"} => Supports(d, lastApps, checks[s].cut)'
  <2>1. CASE d = c
    <3>1. answer'[d] \notin {"yes", "no"}
      BY <1>8, <2>1
    <3>2. (asked'[d] \in installed') \in possible'[d]
      BY <1>1, <1>8, <2>1, Zenon DEF device
    <3>3. ASSUME NEW s \in Slots, waits'[d] = s PROVE checks'[s].at = "apps"
      BY <1>3, <1>8, <1>11, <2>1, <3>3
    <3> QED
      BY <3>1, <3>2, <3>3
  <2>2. CASE d # c
    BY <1>1, <1>7, <1>10, <1>11, <2>2 DEF device, cached, ManagerIInv, FreshOK, Supports
  <2> QED
    BY <2>1, <2>2
<1>12. FreshOK'
  BY <1>11 DEF FreshOK
<1> QED
  BY <1>2, <1>3, <1>9, <1>12 DEF ManagerIInv

-----------------------------------------------------------------------------
\* The check of s is the one in flight, and who waits waits for it.
LEMMA InFlight ==
    ASSUME ManagerIInv, NEW s \in Slots, checks[s].at # "free"
    PROVE  /\ promise = s /\ s # None
           /\ \A t \in Slots : t # s => checks[t].at = "free"
           /\ \A c \in Callers : waits[c] \in {s, None}
BY ManagerAssumption DEF ManagerIInv, ChecksOK, WaitsOK

\* The end of a check: its waiters are told, from the last list if it succeeded.
LEMMA FinishKeeps ==
    ASSUME ManagerIInv, NEW s \in Slots, checks[s].at # "free", NEW fulfilled \in BOOLEAN, Finish(s, fulfilled),
           UNCHANGED <<device, lastApps>>, fulfilled => checks[s].at = "viewsRead"
    PROVE  ChecksOK' /\ WaitsOK' /\ FreshOK'
<1>f. promise = s /\ s # None /\ (\A t \in Slots : t # s => checks[t].at = "free") /\ (\A c \in Callers : waits[c] \in {s, None})
  BY InFlight
<1>0. Free \in [at : Steps, list : SUBSET Apps, views : [Apps -> ViewLists], cut : BOOLEAN] /\ Free.at = "free"
  BY NoViewsIsTyped DEF Free, Steps, NoViews
<1>1. \A t \in Slots : checks'[t].at = "free"
  BY <1>f, <1>0 DEF Finish, ManagerIInv, ChecksOK
<1>2. ChecksOK'
  BY <1>f, <1>0, <1>1, ManagerAssumption DEF Finish, ManagerIInv, ChecksOK
<1>3. \A c \in Callers : waits'[c] = None
  BY <1>f DEF Finish
<1>4. waits' \in [Callers -> Slots \cup {None}]
  BY DEF Finish, ManagerIInv, WaitsOK
<1>5. \A c \in Askers : /\ waits[c] # s => answer'[c] = answer[c]
                        /\ waits[c] = s => answer'[c] = IF ~fulfilled THEN "error" ELSE IF asked[c] \in lastApps THEN "yes" ELSE "no"
  BY DEF Finish
<1>6. answer' \in [Askers -> {"none", "yes", "no", "error"}]
  BY <1>5 DEF Finish, ManagerIInv, WaitsOK
<1>7. \A c \in Askers : c \in Callers /\ waits'[c] = None
  BY <1>3 DEF Callers
<1>8. UNCHANGED <<asked, possible, fresh>>
  BY DEF Finish
<1>m. /\ \A c \in Askers : misled'[c] = IF waits[c] = s THEN checks[s].cut ELSE misled[c]
      /\ misled' \in [Askers -> BOOLEAN]
  <2>1. checks[s].cut \in BOOLEAN
    BY DEF ManagerIInv, ChecksOK
  <2> QED
    BY <2>1 DEF Finish, ManagerIInv, WaitsOK
<1>9. WaitsOK'
  BY <1>3, <1>4, <1>6, <1>7, <1>8, <1>m DEF ManagerIInv, WaitsOK
<1>10. ASSUME NEW c \in Askers, fresh[c]
       PROVE  (answer'[c] = "yes" => TRUE \in possible[c])
              /\ (answer'[c] = "no" => misled'[c] \/ FALSE \in possible[c])
  <2>1. CASE waits[c] = s /\ fulfilled
    <3>1. Supports(c, lastApps, checks[s].cut)
      BY <1>10, <2>1 DEF ManagerIInv, FreshOK
    <3> QED
      BY <1>5, <1>m, <2>1, <3>1 DEF Supports
  <2>2. CASE waits[c] = s /\ ~fulfilled
    BY <1>5, <2>2
  <2>3. CASE waits[c] # s
    BY <1>5, <1>m, <1>10, <2>3 DEF ManagerIInv, FreshOK
  <2> QED
    BY <2>1, <2>2, <2>3
<1>11. FreshOK'
  BY <1>7, <1>8, <1>10, ManagerAssumption DEF FreshOK
<1> QED
  BY <1>2, <1>9, <1>11

\* A step of a check that only moves it on.
LEMMA StepKeepsChecks ==
    ASSUME ManagerIInv, NEW s \in Slots, checks[s].at # "free",
           NEW check \in [at : Steps \ {"free"}, list : SUBSET Apps, views : [Apps -> ViewLists], cut : BOOLEAN],
           checks' = [checks EXCEPT ![s] = check], UNCHANGED promise,
           check.at \in {"views", "viewsRead"} => check.list \subseteq lastDebug'
    PROVE  ChecksOK' /\ checks'[s] = check
<1>f. promise = s /\ s # None /\ (\A t \in Slots : t # s => checks[t].at = "free")
  BY InFlight
<1>1. checks \in [Slots -> [at : Steps, list : SUBSET Apps, views : [Apps -> ViewLists], cut : BOOLEAN]]
  BY DEF ManagerIInv, ChecksOK
<1>2. checks' \in [Slots -> [at : Steps, list : SUBSET Apps, views : [Apps -> ViewLists], cut : BOOLEAN]] /\ checks'[s] = check
      /\ \A t \in Slots : t # s => checks'[t] = checks[t]
  BY <1>1
<1> QED
  BY <1>f, <1>2 DEF ManagerIInv, ChecksOK

\* ... and leaves to whoever waits what it knew.
LEMMA StepKeepsFresh ==
    ASSUME ManagerIInv, NEW s \in Slots, checks[s].at # "free", UNCHANGED <<device, calling, promise>>,
           \A c \in Askers : fresh[c] /\ waits[c] = s =>
              /\ checks'[s].at = "appsRead" => Supports(c, checks'[s].list, checks'[s].cut)
              /\ checks'[s].at \notin {"apps", "appsRead"} => Supports(c, lastApps', checks'[s].cut)
    PROVE  DeviceOK' /\ WaitsOK' /\ FreshOK'
<1>f. \A c \in Callers : waits[c] \in {s, None}
  BY InFlight
<1>1. \A c \in Askers : \A t \in Slots : waits[c] = t => t = s
  BY <1>f, ManagerAssumption DEF Callers
<1> QED
  BY <1>1 DEF ManagerIInv, DeviceOK, WaitsOK, FreshOK, Supports, device, calling

-----------------------------------------------------------------------------
\* The device answers a question.
LEMMA ReadKeeps ==
    ASSUME ManagerIInv, NEW s \in Slots, ReadApps(s) \/ ReadDebuggable(s) \/ ReadViews(s)
    PROVE  ManagerIInv'
<1>1. UNCHANGED <<device, cached, promise, calling>> /\ checks[s].at \in {"apps", "debug", "views"}
  BY DEF ReadApps, ReadDebuggable, ReadViews
<1>2. CachedOK'
  BY <1>1 DEF ManagerIInv, CachedOK, cached
<1>3. checks[s] \in [at : Steps, list : SUBSET Apps, views : [Apps -> ViewLists], cut : BOOLEAN]
      /\ checks[s].list \subseteq Apps /\ checks[s].views \in [Apps -> ViewLists]
  BY DEF ManagerIInv, ChecksOK
<1>t. installed \subseteq Apps /\ running \subseteq Apps /\ pages \in [Apps -> ViewLists]
  BY DEF ManagerIInv, DeviceOK
<1>4. CASE ReadApps(s)
  <2>0. PICK list \in SUBSET installed :
          checks' = [checks EXCEPT ![s] = [@ EXCEPT !.at = "appsRead", !.list = list,
                                                    !.cut = (list # installed)]]
    BY <1>4 DEF ReadApps
  <2> DEFINE check == [checks[s] EXCEPT !.at = "appsRead", !.list = list, !.cut = (list # installed)]
  <2>1. checks' = [checks EXCEPT ![s] = check] /\ check.at = "appsRead" /\ check.list = list
    BY <1>3, <2>0 DEF ManagerIInv, ChecksOK
  <2>2. check.cut = (list # installed)
        /\ check \in [at : Steps \ {"free"}, list : SUBSET Apps, views : [Apps -> ViewLists], cut : BOOLEAN]
    BY <1>3, <1>t DEF Steps
  <2> HIDE DEF check
  <2>3. ChecksOK' /\ checks'[s] = check
    BY <1>1, <2>1, <2>2, StepKeepsChecks
  <2>4. ASSUME NEW c \in Askers, fresh[c], waits[c] = s PROVE Supports(c, check.list, check.cut)
    <3>1. (asked[c] \in installed) \in possible[c]
      BY <2>4 DEF ManagerIInv, FreshOK
    <3>2. CASE asked[c] \in installed
      <4>1. TRUE \in possible[c]
        BY <3>1, <3>2
      <4>2. asked[c] \notin list => check.cut
        BY <2>2, <3>2
      <4> QED
        BY <2>1, <4>1, <4>2 DEF Supports
    <3>3. CASE asked[c] \notin installed
      <4>1. (asked[c] \in installed) = FALSE
        BY <3>3
      <4>2. FALSE \in possible[c]
        BY <3>1, <4>1, Zenon
      <4> QED
        BY <2>1, <3>3, <4>2 DEF Supports
    <3> QED
      BY <3>2, <3>3
  <2> QED
    BY <1>1, <1>2, <2>1, <2>3, <2>4, StepKeepsFresh DEF ManagerIInv
<1>5. CASE ReadDebuggable(s) \/ ReadViews(s)
  <2>1. PICK check \in [at : Steps \ {"free"}, list : SUBSET Apps, views : [Apps -> ViewLists], cut : BOOLEAN] :
          /\ checks' = [checks EXCEPT ![s] = check]
          /\ check.at \in {"debugRead", "viewsRead"} /\ check.cut = checks[s].cut
          /\ check.at = "viewsRead" => check.list \subseteq checks[s].list /\ checks[s].at = "views"
    <3>1. CASE ReadDebuggable(s)
      <4>0. PICK list \in SUBSET running :
              checks' = [checks EXCEPT ![s].at = "debugRead", ![s].list = list]
        BY <3>1 DEF ReadDebuggable
      <4> DEFINE check == [checks[s] EXCEPT !.at = "debugRead", !.list = list]
      <4>1. checks' = [checks EXCEPT ![s] = check]
        BY <1>3, <4>0 DEF ManagerIInv, ChecksOK
      <4>2. check \in [at : Steps \ {"free"}, list : SUBSET Apps, views : [Apps -> ViewLists], cut : BOOLEAN] /\ check.at = "debugRead"
            /\ check.cut = checks[s].cut
        BY <1>3, <1>t DEF Steps
      <4> QED
        BY <4>1, <4>2
    <3>2. CASE ReadViews(s)
      <4>0. PICK shown \in SUBSET (checks[s].list \cap Cordova) : \E heardOf \in SUBSET (shown \cap running) :
              checks' = [checks EXCEPT ![s].at = "viewsRead", ![s].list = shown,
                           ![s].views = [a \in Apps |-> IF a \in heardOf THEN pages[a] ELSE {}]]
        BY <3>2 DEF ReadViews
      <4>1. PICK heardOf \in SUBSET (shown \cap running) :
              checks' = [checks EXCEPT ![s].at = "viewsRead", ![s].list = shown,
                           ![s].views = [a \in Apps |-> IF a \in heardOf THEN pages[a] ELSE {}]]
        BY <4>0
      <4> DEFINE views == [a \in Apps |-> IF a \in heardOf THEN pages[a] ELSE {}]
                 check == [checks[s] EXCEPT !.at = "viewsRead", !.list = shown, !.views = views]
      <4>2. views \in [Apps -> ViewLists]
        BY <1>t, NoViewsIsTyped DEF ViewLists
      <4>3. checks' = [checks EXCEPT ![s] = check]
        BY <1>3, <4>1 DEF ManagerIInv, ChecksOK
      <4> HIDE DEF views
      <4>4. check \in [at : Steps \ {"free"}, list : SUBSET Apps, views : [Apps -> ViewLists], cut : BOOLEAN]
            /\ check.at = "viewsRead" /\ check.list = shown /\ check.cut = checks[s].cut
        BY <1>3, <4>2 DEF Steps
      <4>5. checks[s].at = "views"
        BY <3>2 DEF ReadViews
      <4> QED
        BY <4>1, <4>3, <4>4, <4>5
    <3> QED
      BY <1>5, <3>1, <3>2
  <2>2. UNCHANGED <<lastDebug, lastApps>>
    BY <1>1 DEF cached
  <2>3. check.at \in {"views", "viewsRead"} => check.list \subseteq lastDebug'
    BY <2>1, <2>2 DEF ManagerIInv, ChecksOK
  <2>4. ChecksOK' /\ checks'[s] = check
    BY <1>1, <2>1, <2>3, StepKeepsChecks
  <2>5. checks[s].at \notin {"apps", "appsRead"}
    BY <1>5 DEF ReadDebuggable, ReadViews
  <2>6. \A c \in Askers : fresh[c] /\ waits[c] = s => Supports(c, lastApps', check.cut)
    BY <2>1, <2>2, <2>5 DEF ManagerIInv, FreshOK
  <2> QED
    BY <1>1, <1>2, <2>1, <2>4, <2>6, StepKeepsFresh DEF ManagerIInv
<1> QED
  BY <1>4, <1>5

\* The list of applications is compared and kept.
LEMMA ApplyAppsKeeps ==
    ASSUME ManagerIInv, NEW s \in Slots, ApplyApps(s)
    PROVE  ManagerIInv'
<1>1. UNCHANGED <<device, lastDebug, lastViews, promise, calling>> /\ checks[s].at = "appsRead" /\ lastApps' = checks[s].list
  BY DEF ApplyApps
<1>r. checks[s] \in [at : Steps, list : SUBSET Apps, views : [Apps -> ViewLists], cut : BOOLEAN]
  BY DEF ManagerIInv, ChecksOK
<1>2. checks[s].list \subseteq Apps /\ checks[s].views \in [Apps -> ViewLists]
  BY <1>r
<1>3. heard'.apps = lastApps' /\ heard' = [heard EXCEPT !.apps = lastApps']
  BY DEF ApplyApps, ManagerIInv, CachedOK
<1>4. CachedOK'
  BY <1>1, <1>2, <1>3 DEF ManagerIInv, CachedOK
<1> DEFINE check == [checks[s] EXCEPT !.at = "debug", !.list = {}]
<1>5. checks' = [checks EXCEPT ![s] = check]
  BY <1>r DEF ApplyApps, ManagerIInv, ChecksOK
<1>6. check \in [at : Steps \ {"free"}, list : SUBSET Apps, views : [Apps -> ViewLists], cut : BOOLEAN] /\ check.at = "debug"
      /\ check.cut = checks[s].cut
  BY <1>r DEF Steps
<1> HIDE DEF check
<1>7. ChecksOK' /\ checks'[s] = check
  BY <1>1, <1>5, <1>6, StepKeepsChecks
<1>8. \A c \in Askers : fresh[c] /\ waits[c] = s => Supports(c, lastApps', check.cut)
  BY <1>1, <1>6 DEF ManagerIInv, FreshOK
<1> QED
  BY <1>1, <1>4, <1>6, <1>7, <1>8, StepKeepsFresh DEF ManagerIInv

\* The debuggable applications are compared and kept, and the views of the lost ones forgotten.
LEMMA ApplyDebuggableKeeps ==
    ASSUME ManagerIInv, NEW s \in Slots, ApplyDebuggable(s)
    PROVE  ManagerIInv'
<1>1. UNCHANGED <<device, lastApps, promise, calling>> /\ checks[s].at = "debugRead" /\ lastDebug' = checks[s].list
  BY DEF ApplyDebuggable
<1>r. checks[s] \in [at : Steps, list : SUBSET Apps, views : [Apps -> ViewLists], cut : BOOLEAN]
  BY DEF ManagerIInv, ChecksOK
<1>2. checks[s].list \subseteq Apps /\ checks[s].views \in [Apps -> ViewLists]
  BY <1>r
<1>3. lastViews' = [a \in Apps |-> IF a \in lastDebug \ lastDebug' THEN {} ELSE lastViews[a]]
  BY <1>1 DEF ApplyDebuggable
<1>4. heard' = [apps |-> lastApps', debug |-> lastDebug', views |-> lastViews']
  <2>1. heard = [apps |-> lastApps, debug |-> lastDebug, views |-> lastViews]
    BY DEF ManagerIInv, CachedOK
  <2>2. heard'.debug = lastDebug' /\ heard'.views = lastViews' /\ heard'.apps = lastApps
        /\ heard' = [apps |-> heard'.apps, debug |-> heard'.debug, views |-> heard'.views]
    BY <1>1, <1>3, <2>1 DEF ApplyDebuggable
  <2> QED
    BY <1>1, <2>2
<1>5. lastViews' \in [Apps -> ViewLists] /\ \A a \in Apps : lastViews'[a] # {} => a \in lastDebug'
  BY <1>3, NoViewsIsTyped DEF ManagerIInv, CachedOK, ViewLists
<1>6. CachedOK'
  BY <1>1, <1>2, <1>4, <1>5 DEF ManagerIInv, CachedOK
<1> DEFINE check == [checks[s] EXCEPT !.at = "views"]
<1>7. checks' = [checks EXCEPT ![s] = check]
  BY <1>r DEF ApplyDebuggable, ManagerIInv, ChecksOK
<1>8. check \in [at : Steps \ {"free"}, list : SUBSET Apps, views : [Apps -> ViewLists], cut : BOOLEAN] /\ check.at = "views"
      /\ check.list = lastDebug' /\ check.cut = checks[s].cut
  BY <1>1, <1>r DEF Steps
<1> HIDE DEF check
<1>9. ChecksOK' /\ checks'[s] = check
  BY <1>1, <1>7, <1>8, StepKeepsChecks
<1>10. \A c \in Askers : fresh[c] /\ waits[c] = s => Supports(c, lastApps', check.cut)
  BY <1>1, <1>8 DEF ManagerIInv, FreshOK, Supports
<1> QED
  BY <1>1, <1>6, <1>8, <1>9, <1>10, StepKeepsFresh DEF ManagerIInv

\* The views are compared and kept, and the check ends.
LEMMA ApplyViewsKeeps ==
    ASSUME ManagerIInv, NEW s \in Slots, ApplyViews(s)
    PROVE  ManagerIInv'
<1>1. UNCHANGED <<device, lastApps, lastDebug>> /\ checks[s].at = "viewsRead" /\ Finish(s, TRUE)
  BY DEF ApplyViews
<1>2. checks[s].list \subseteq lastDebug /\ checks[s].views \in [Apps -> ViewLists]
  BY <1>1 DEF ManagerIInv, ChecksOK
<1>3. /\ lastViews' = [a \in Apps |-> IF a \in checks[s].list THEN checks[s].views[a] ELSE lastViews[a]]
      /\ heard' = [heard EXCEPT !.views =
                     [a \in Apps |-> IF a \in checks[s].list
                                     THEN ViewsAfterEvents(@[a], lastViews[a], checks[s].views[a]) ELSE @[a]]]
  BY DEF ApplyViews
<1>4. lastViews' \in [Apps -> ViewLists] /\ \A a \in Apps : lastViews'[a] # {} => a \in lastDebug'
  BY <1>1, <1>2, <1>3 DEF ManagerIInv, CachedOK
<1>5. heard.views = lastViews /\ lastViews \in [Apps -> ViewLists]
      /\ heard = [apps |-> lastApps, debug |-> lastDebug, views |-> lastViews]
  BY DEF ManagerIInv, CachedOK
<1>6. \A a \in Apps : ViewsAfterEvents(lastViews[a], lastViews[a], checks[s].views[a]) = checks[s].views[a]
  BY <1>2, <1>5, EventsGiveTheList
<1>7. heard' = [apps |-> lastApps, debug |-> lastDebug, views |-> lastViews']
  <2> DEFINE views == [a \in Apps |-> IF a \in checks[s].list
                                     THEN ViewsAfterEvents(heard.views[a], lastViews[a], checks[s].views[a])
                                     ELSE heard.views[a]]
  <2>1. views = lastViews'
    BY <1>3, <1>5, <1>6
  <2>2. heard' = [heard EXCEPT !.views = views]
    BY <1>3
  <2> QED
    BY <1>5, <2>1, <2>2
<1>8. CachedOK'
  BY <1>1, <1>4, <1>7 DEF ManagerIInv, CachedOK
<1>9. ChecksOK' /\ WaitsOK' /\ FreshOK'
  BY <1>1, FinishKeeps
<1>10. DeviceOK'
  BY <1>1 DEF ManagerIInv, DeviceOK, device
<1> QED
  BY <1>8, <1>9, <1>10 DEF ManagerIInv

\* A question fails, and the check with it.
LEMMA QuestionFailsKeeps ==
    ASSUME ManagerIInv, NEW s \in Slots, QuestionFails(s)
    PROVE  ManagerIInv'
<1>1. UNCHANGED <<device, cached>> /\ checks[s].at # "free" /\ Finish(s, FALSE)
  BY DEF QuestionFails
<1>2. ChecksOK' /\ WaitsOK' /\ FreshOK'
  BY <1>1, FinishKeeps DEF cached
<1>3. DeviceOK' /\ CachedOK'
  BY <1>1 DEF ManagerIInv, DeviceOK, CachedOK, device, cached
<1> QED
  BY <1>2, <1>3 DEF ManagerIInv

\* Every step keeps the invariant.
LEMMA ManagerNextIInv == ManagerIInv /\ [Next]_vars => ManagerIInv'
<1> SUFFICES ASSUME ManagerIInv, [Next]_vars PROVE ManagerIInv'
  OBVIOUS
<1>1. CASE UNCHANGED vars
  BY <1>1 DEF vars, device, cached, calling, ManagerIInv, DeviceOK, CachedOK, ChecksOK, WaitsOK, FreshOK, Supports
<1> QED
  BY <1>1, DeviceChangesKeeps, IntervalKeeps, AskKeeps, ReadKeeps, ApplyAppsKeeps, ApplyDebuggableKeeps,
     ApplyViewsKeeps, QuestionFailsKeeps DEF Next

-----------------------------------------------------------------------------
\* The invariant holds in every state that can be reached.
THEOREM ManagerInvariant == Spec => []ManagerIInv
<1> QED
  BY ManagerInitIInv, ManagerNextIInv, PTL DEF Spec

\* The state of the manager has its shape.
THEOREM ManagerTypeCorrect == Spec => []TypeOK
<1>1. ManagerIInv => TypeOK
  BY DEF ManagerIInv, DeviceOK, CachedOK, ChecksOK, WaitsOK, TypeOK
<1> QED
  BY <1>1, ManagerInvariant, PTL

\* A subscriber of the events knows what the manager knows, whatever fails.
THEOREM ManagerSubscribersAgree == Spec => []SubscribersAgree
<1>1. ManagerIInv => SubscribersAgree
  BY DEF ManagerIInv, CachedOK, SubscribersAgree
<1> QED
  BY <1>1, ManagerInvariant, PTL

\* A check of one's own gives an answer that was true since the call, or a no for which
\* adb lost a part of the list.
THEOREM ManagerFreshAnswers == Spec => []FreshAnswers
<1>1. ManagerIInv => FreshAnswers
  BY DEF ManagerIInv, FreshOK, FreshAnswers
<1> QED
  BY <1>1, ManagerInvariant, PTL

-----------------------------------------------------------------------------
\* What an asker was told, as SharedPromise sees it.
ToldBy(a) == IF a \in {"yes", "no"} THEN "ok" ELSE IF a = "error" THEN "failed" ELSE "none"

\* A caller joins or makes the promise.
LEMMA CheckIsPromised ==
    ASSUME ManagerIInv, NEW c \in Callers, waits[c] = None, PromisedCheck(c)
    PROVE  Shared!PendingOrStarted
<1>1. CASE promise # None
  BY <1>1 DEF PromisedCheck, Shared!PendingOrStarted
<1>2. CASE promise = None
  <2>1. PICK s \in Slots : checks' = [checks EXCEPT ![s] = [Free EXCEPT !.at = "apps"]] /\ promise' = s
    BY <1>2 DEF PromisedCheck
  <2>2. \A t \in Slots : checks[t].at = "free"
    BY <1>2, ManagerAssumption DEF ManagerIInv, ChecksOK
  <2>3. \A t \in Slots : checks'[t].at = IF t = s THEN "apps" ELSE "free"
    BY <2>1, <2>2 DEF ManagerIInv, ChecksOK, Free
  <2>4. {t \in Slots : checks'[t].at # "free"} = {s}
    BY <2>3
  <2> QED
    BY <1>2, <2>1, <2>4, ManagerAssumption DEF Shared!PendingOrStarted
<1> QED
  BY <1>1, <1>2

\* An asker waits.
LEMMA AskWaits ==
    ASSUME ManagerIInv, NEW c \in Askers, IsApplicationInstalled(c)
    PROVE  Shared!SharedNext
<1>1. c \in Callers /\ waits[c] = None /\ PromisedCheck(c) /\ answer' = [answer EXCEPT ![c] = "none"] /\ UNCHANGED lastDebug
  BY DEF IsApplicationInstalled, Callers, cached
<1>2. waits' = [waits EXCEPT ![c] = promise'] /\ promise' \in Slots
  BY <1>1, PromisedCheckKeeps
<1>3. waits \in [Callers -> Slots \cup {None}] /\ answer \in [Askers -> {"none", "yes", "no", "error"}]
  BY DEF ManagerIInv, WaitsOK
<1>4. \A d \in Askers : d \in Callers /\ waits'[d] = IF d = c THEN promise' ELSE waits[d]
  BY <1>1, <1>2, <1>3 DEF Callers
<1>5. {d \in Askers : waits'[d] # None} = {d \in Askers : waits[d] # None} \cup {c}
  BY <1>2, <1>4, ManagerAssumption
<1>6. [d \in Askers |-> ToldBy(answer'[d])] = [[d \in Askers |-> ToldBy(answer[d])] EXCEPT ![c] = "none"]
  BY <1>1, <1>3 DEF ToldBy
<1>7. c \notin {d \in Askers : waits[d] # None}
  BY <1>1
<1>8. Shared!PendingOrStarted
  BY <1>1, CheckIsPromised
<1> QED
  BY <1>5, <1>6, <1>7, <1>8 DEF Shared!Wait, Shared!SharedNext, ToldBy

\* The interval is a caller whose waiting is not seen.
LEMMA IntervalWaits ==
    ASSUME ManagerIInv, IntervalChecks
    PROVE  Shared!SharedNext
<1>1. /\ Interval \in Callers /\ waits[Interval] = None /\ PromisedCheck(Interval)
      /\ UNCHANGED <<answer, lastDebug>> /\ Interval \notin Askers
  BY ManagerAssumption DEF IntervalChecks, Callers, cached
<1>2. waits' = [waits EXCEPT ![Interval] = promise']
  BY <1>1, PromisedCheckKeeps
<1>3. \A d \in Askers : waits'[d] = waits[d]
  BY <1>1, <1>2 DEF ManagerIInv, WaitsOK, Callers
<1>4. {d \in Askers : waits'[d] # None} = {d \in Askers : waits[d] # None}
  BY <1>3
<1>5. Shared!PendingOrStarted
  BY <1>1, CheckIsPromised
<1> QED
  BY <1>1, <1>4, <1>5 DEF Shared!WaitUnseen, Shared!SharedNext

\* The check ends for all who wait.
LEMMA FinishSettles ==
    ASSUME ManagerIInv, NEW s \in Slots, checks[s].at # "free", NEW fulfilled \in BOOLEAN, Finish(s, fulfilled)
    PROVE  Shared!SharedNext
<1> DEFINE outcome == IF fulfilled THEN "ok" ELSE "failed"
<1>1. promise = s /\ s # None /\ (\A t \in Slots : t # s => checks[t].at = "free") /\ (\A c \in Callers : waits[c] \in {s, None})
  BY InFlight
<1>2. \A t \in Slots : checks'[t].at = "free"
  BY <1>1 DEF Finish, ManagerIInv, ChecksOK, Free
<1>3. {t \in Slots : checks'[t].at # "free"} = {} /\ promise' = None
  BY <1>2 DEF Finish
<1>4. \A c \in Askers : c \in Callers /\ waits'[c] = None
  BY <1>1 DEF Finish, Callers
<1>5. {d \in Askers : waits'[d] # None} = {}
  BY <1>4
<1>6. \A c \in Askers : ToldBy(answer'[c]) = IF waits[c] # None THEN outcome ELSE ToldBy(answer[c])
  BY <1>1, <1>4 DEF Finish, ToldBy
<1>7. [c \in Askers |-> ToldBy(answer'[c])]
      = [c \in Askers |-> IF c \in {d \in Askers : waits[d] # None} THEN outcome ELSE [d \in Askers |-> ToldBy(answer[d])][c]]
  BY <1>6
<1>8. Shared!Settle(outcome)
  BY <1>1, <1>3, <1>5, <1>7 DEF Shared!Settle, ToldBy
<1> QED
  BY <1>8 DEF Shared!SharedNext

\* A check that only moves on does nothing to the promise.
LEMMA MovingStutters ==
    ASSUME ManagerIInv, ManagerIInv', UNCHANGED <<promise, waits, answer>>
    PROVE  UNCHANGED Shared!sharedVars
<1>1. {s \in Slots : checks'[s].at # "free"} = {s \in Slots : checks[s].at # "free"}
  BY DEF ManagerIInv, ChecksOK
<1> QED
  BY <1>1 DEF Shared!sharedVars

\* Every step of the manager is a step of the shared promise, or none.
LEMMA NextIsShared == ManagerIInv /\ [Next]_vars => [Shared!SharedNext]_Shared!sharedVars
<1> SUFFICES ASSUME ManagerIInv, [Next]_vars PROVE Shared!SharedNext \/ UNCHANGED Shared!sharedVars
  OBVIOUS
<1>1. ManagerIInv'
  BY ManagerNextIInv
<1>2. ASSUME NEW s \in Slots, ApplyViews(s) \/ QuestionFails(s) PROVE Shared!SharedNext
  BY <1>2, FinishSettles DEF ApplyViews, QuestionFails
<1>3. ASSUME DeviceChanges \/ UNCHANGED vars \/ \E s \in Slots : ReadApps(s) \/ ApplyApps(s) \/ ReadDebuggable(s)
                                                                  \/ ApplyDebuggable(s) \/ ReadViews(s)
      PROVE  UNCHANGED Shared!sharedVars
  <2>1. UNCHANGED <<promise, waits, answer>>
    BY <1>3 DEF DeviceChanges, vars, calling, ReadApps, ApplyApps, ReadDebuggable, ApplyDebuggable, ReadViews
  <2> QED
    BY <1>1, <2>1, MovingStutters
<1> QED
  BY <1>2, <1>3, AskWaits, IntervalWaits DEF Next

\* checkForApplicationUpdates implements SharedPromise: one check at a time, and all who
\* wait for it told alike.
THEOREM ManagerCheckIsShared == Spec => CheckIsShared
<1>1. Init => Shared!SharedInit
  <2> SUFFICES ASSUME Init PROVE Shared!SharedInit
    OBVIOUS
  <2>1. \A s \in Slots : checks[s].at = "free"
    BY DEF Init, Free
  <2>2. \A c \in Askers : waits[c] = None /\ answer[c] = "none"
    BY DEF Init, Callers
  <2> QED
    BY <2>1, <2>2 DEF Init, Shared!SharedInit
<1> QED
  BY <1>1, ManagerInvariant, NextIsShared, PTL DEF Spec, CheckIsShared, Shared!SharedSpec
=============================================================================
