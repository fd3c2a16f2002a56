------------------------- MODULE ApplicationManager -------------------------
(***************************************************************************)
(* ApplicationManagerBase: checkForApplicationUpdates asks the device for  *)
(* its applications, for those that can be debugged and for their web      *)
(* views, compares each answer with the last one and raises an event for   *)
(* every difference.  The interval calls it for every device again and     *)
(* again, and isApplicationInstalled calls it whenever somebody deploys; a *)
(* promise makes the calls share one check.                                *)
(*                                                                         *)
(* Each question to the device is two steps, the moment the device reads   *)
(* its state and the moment the answer is applied.  A question whose adb   *)
(* command fails is rejected only for the messages adb's result handler    *)
(* knows; any other failure is answered with what adb had written by then, *)
(* some of the lines of the list, seldom all of them.                      *)
(***************************************************************************)
EXTENDS Naturals, FiniteSets

CONSTANTS
    Apps,       \* application identifiers
    Cordova,    \* the Cordova applications: only these are asked for their views
    ViewIds,    \* identifiers of web views
    Infos,      \* what else a debuggable view says of itself (title, url)
    Slots,      \* room for checks in flight (bound)
    Interval,   \* the caller that is the detection interval
    Askers,     \* callers of isApplicationInstalled
    None,       \* no promise
    MaxChanges  \* changes of the device (bound)

Callers == Askers \cup {Interval}
View == [id : ViewIds, info : Infos]
ViewLists == {l \in SUBSET View : \A v, w \in l : v.id = w.id => v = w}

ASSUME ManagerAssumption ==
    /\ Cordova \subseteq Apps
    /\ Interval \notin Askers
    /\ None \notin Slots
    /\ MaxChanges \in Nat

VARIABLES
    installed,  \* the applications on the device (environment)
    running,    \* those that can be debugged (environment)
    pages,      \* their web views (environment)
    changes,    \* changes of it so far (bound)
    lastApps,   \* lastInstalledAppIdentifiers
    lastDebug,  \* lastAvailableDebuggableApps
    lastViews,  \* lastAvailableDebuggableAppViews
    promise,    \* checkForApplicationUpdatesPromise: the check in it, or None
    checks,     \* the checks in flight
    waits,      \* the check each caller waits for, or None
    asked,      \* the application an asker asks for
    possible,   \* history: what was true of it on the device since the call
    fresh,      \* history: the asker started its check, it did not join one
    misled,     \* history: the check that answered it had a list cut short
    answer,     \* the answer of isApplicationInstalled
    heard       \* history: what a subscriber of the events believes

device == <<installed, running, pages, changes>>
cached == <<lastApps, lastDebug, lastViews, heard>>
calling == <<waits, asked, possible, fresh, misled, answer>>
vars == <<device, cached, promise, checks, calling>>

\* list and views as answered; cut (history): the list of applications was cut short.
Free == [at |-> "free", list |-> {}, views |-> [a \in Apps |-> {}], cut |-> FALSE]

Steps == {"free", "apps", "appsRead", "debug", "debugRead", "views", "viewsRead"}

TypeOK ==
    /\ installed \subseteq Apps /\ running \subseteq installed
    /\ pages \in [Apps -> ViewLists]
    /\ changes \in 0 .. MaxChanges
    /\ lastApps \subseteq Apps /\ lastDebug \subseteq Apps
    /\ lastViews \in [Apps -> ViewLists]
    /\ promise \in Slots \cup {None}
    /\ checks \in [Slots -> [at : Steps, list : SUBSET Apps, views : [Apps -> ViewLists], cut : BOOLEAN]]
    /\ \A s \in Slots : checks[s].at # "free" <=> promise = s
    /\ waits \in [Callers -> Slots \cup {None}]
    /\ asked \in [Askers -> Apps]
    /\ possible \in [Askers -> SUBSET BOOLEAN]
    /\ {fresh, misled} \subseteq [Askers -> BOOLEAN]
    /\ answer \in [Askers -> {"none", "yes", "no", "error"}]
    /\ heard \in [apps : SUBSET Apps, debug : SUBSET Apps, views : [Apps -> ViewLists]]

NoViews == [a \in Apps |-> {}]

Init ==
    /\ installed \in SUBSET Apps
    /\ running = {}
    /\ pages = NoViews
    /\ changes = 0
    /\ lastApps = {}
    /\ lastDebug = {}
    /\ lastViews = NoViews
    /\ promise = None
    /\ checks = [s \in Slots |-> Free]
    /\ waits = [c \in Callers |-> None]
    /\ asked \in [Askers -> Apps]
    /\ possible = [c \in Askers |-> {}]
    /\ fresh = [c \in Askers |-> FALSE]
    /\ misled = [c \in Askers |-> FALSE]
    /\ answer = [c \in Askers |-> "none"]
    /\ heard = [apps |-> {}, debug |-> {}, views |-> NoViews]

-----------------------------------------------------------------------------
\* The device: applications come and go, start and stop, and so do their views.
DeviceChanges ==
    /\ changes < MaxChanges
    /\ changes' = changes + 1
    /\ \E a \in Apps :
          \/ /\ installed' = IF a \in installed THEN installed \ {a} ELSE installed \cup {a}
             /\ running' = running \cap installed'
             /\ UNCHANGED pages
          \/ /\ a \in installed
             /\ running' = IF a \in running THEN running \ {a} ELSE running \cup {a}
             /\ UNCHANGED <<installed, pages>>
          \/ /\ a \in running \cap Cordova
             /\ pages' \in {[pages EXCEPT ![a] = l] : l \in ViewLists \ {pages[a]}}
             /\ UNCHANGED <<installed, running>>
    /\ possible' = [c \in Askers |-> IF waits[c] # None
                                     THEN possible[c] \cup {asked[c] \in installed'}
                                     ELSE possible[c]]
    /\ UNCHANGED <<cached, promise, checks, waits, asked, fresh, misled, answer>>

\* Mutant of PromisedCheck: the promise is not looked at.
CheckUnshared(c) ==
    /\ \E s \in Slots :
          /\ checks[s].at = "free"
          /\ checks' = [checks EXCEPT ![s] = [Free EXCEPT !.at = "apps"]]
          /\ promise' = s
          /\ waits' = [waits EXCEPT ![c] = s]

\* checkForApplicationUpdates: start a check, or share the one in flight.
PromisedCheck(c) ==
    \/ /\ promise # None
       /\ waits' = [waits EXCEPT ![c] = promise]
       /\ UNCHANGED <<promise, checks>>
    \/ /\ promise = None
       /\ \E s \in Slots :
             /\ checks[s].at = "free"
             /\ checks' = [checks EXCEPT ![s] = [Free EXCEPT !.at = "apps"]]
             /\ promise' = s
             /\ waits' = [waits EXCEPT ![c] = s]

\* The interval comes round.
IntervalChecks ==
    /\ waits[Interval] = None
    /\ PromisedCheck(Interval)
    /\ UNCHANGED <<device, cached, asked, possible, fresh, misled, answer>>

\* isApplicationInstalled, of reinstallApplication or of the devices service.
IsApplicationInstalled(c) ==
    /\ waits[c] = None
    /\ PromisedCheck(c)
    /\ asked' \in {[asked EXCEPT ![c] = a] : a \in Apps}
    /\ possible' = [possible EXCEPT ![c] = {asked'[c] \in installed}]
    /\ fresh' = [fresh EXCEPT ![c] = (promise = None)]
    /\ misled' = [misled EXCEPT ![c] = FALSE]
    /\ answer' = [answer EXCEPT ![c] = "none"]
    /\ UNCHANGED <<device, cached>>

\* Mutant of Finish: a rejection leaves the promise where it is.
FinishKeepingPromise(s, fulfilled) ==
    /\ promise' = IF fulfilled THEN None ELSE promise
    /\ checks' = [checks EXCEPT ![s] = Free]
    /\ waits' = [c \in Callers |-> IF waits[c] = s THEN None ELSE waits[c]]
    /\ answer' = [c \in Askers |-> IF waits[c] = s THEN "error" ELSE answer[c]]
    /\ UNCHANGED <<asked, possible, fresh, misled>>

\* The check of s is over: its promise is dropped and its waiters go on.  The askers
\* look for their application in the last list, whoever's check brought it.
Finish(s, fulfilled) ==
    /\ promise' = None
    /\ checks' = [checks EXCEPT ![s] = Free]
    /\ waits' = [c \in Callers |-> IF waits[c] = s THEN None ELSE waits[c]]
    /\ answer' = [c \in Askers |->
                    IF waits[c] # s THEN answer[c]
                    ELSE IF ~fulfilled THEN "error"
                    ELSE IF asked[c] \in lastApps THEN "yes" ELSE "no"]
    /\ misled' = [c \in Askers |-> IF waits[c] = s THEN checks[s].cut ELSE misled[c]]
    /\ UNCHANGED <<asked, possible, fresh>>

-----------------------------------------------------------------------------
\* The device writes its list of applications, or adb fails unnoticed before its end.
ReadApps(s) ==
    /\ checks[s].at = "apps"
    /\ \E list \in SUBSET installed :
          checks' = [checks EXCEPT ![s] = [@ EXCEPT !.at = "appsRead", !.list = list,
                                                    !.cut = (list # installed)]]
    /\ UNCHANGED <<device, cached, promise, calling>>

\* The differences are told and the list is kept.
ApplyApps(s) ==
    LET current == checks[s].list
        new == current \ lastApps
        removed == lastApps \ current
    IN /\ checks[s].at = "appsRead"
       /\ lastApps' = current
       /\ heard' = [heard EXCEPT !.apps = (@ \cup new) \ removed]
       /\ checks' = [checks EXCEPT ![s].at = "debug", ![s].list = {}]
       /\ UNCHANGED <<device, lastDebug, lastViews, promise, calling>>

\* The same of those that can be debugged.
ReadDebuggable(s) ==
    /\ checks[s].at = "debug"
    /\ \E list \in SUBSET running :
          checks' = [checks EXCEPT ![s].at = "debugRead", ![s].list = list]
    /\ UNCHANGED <<device, cached, promise, calling>>

\* Mutant of ApplyDebuggable: the views of an application that is gone are kept.
ApplyDebuggableKeepingViews(s) ==
    LET current == checks[s].list IN
    /\ checks[s].at = "debugRead"
    /\ lastDebug' = current
    /\ heard' = [heard EXCEPT !.debug = current,
                              !.views = [a \in Apps |-> IF a \in lastDebug \ current
                                                        THEN {} ELSE heard.views[a]]]
    /\ checks' = [checks EXCEPT ![s].at = "views"]
    /\ UNCHANGED <<device, lastApps, lastViews, promise, calling>>

\* The first half of checkForAvailableDebuggableAppsChanges: a subscriber who hears
\* that an application is lost forgets its views, and so does the manager.
ApplyDebuggable(s) ==
    LET current == checks[s].list
        lost == lastDebug \ current
        Forget(views) == [a \in Apps |-> IF a \in lost THEN {} ELSE views[a]]
    IN /\ checks[s].at = "debugRead"
       /\ lastDebug' = current
       /\ lastViews' = Forget(lastViews)
       /\ heard' = [heard EXCEPT !.debug = (@ \cup (current \ lastDebug)) \ lost,
                                 !.views = Forget(@)]
       /\ checks' = [checks EXCEPT ![s].at = "views"]
       /\ UNCHANGED <<device, lastApps, promise, calling>>

\* getDebuggableAppViews: some of the applications may be missing from the answer, and
\* one whose port is not found or does not answer is said to have no views.
ReadViews(s) ==
    /\ checks[s].at = "views"
    /\ \E shown \in SUBSET (checks[s].list \cap Cordova) : \E heardOf \in SUBSET (shown \cap running) :
          checks' = [checks EXCEPT
                       ![s].at = "viewsRead",
                       ![s].list = shown,
                       ![s].views = [a \in Apps |-> IF a \in heardOf
                                                    THEN pages[a] ELSE {}]]
    /\ UNCHANGED <<device, cached, promise, calling>>

ViewIdsOf(list) == {v.id : v \in list}

\* What debuggableViewLost, debuggableViewFound and debuggableViewChanged make of what
\* a subscriber knew of an application's views.
ViewsAfterEvents(known, previous, current) ==
    LET new == {v \in current : v.id \notin ViewIdsOf(previous)}
        lost == {v \in previous : v.id \notin ViewIdsOf(current)}
        changed == {v \in current : v.id \in ViewIdsOf(previous) /\ v \notin previous}
    IN {v \in known : v.id \notin ViewIdsOf(lost) \cup ViewIdsOf(changed)}
         \cup new \cup changed

\* The second half: the last step of a check.
ApplyViews(s) ==
    LET check == checks[s] IN
    /\ check.at = "viewsRead"
    /\ lastViews' = [a \in Apps |-> IF a \in check.list THEN check.views[a] ELSE lastViews[a]]
    /\ heard' = [heard EXCEPT !.views =
                    [a \in Apps |-> IF a \in check.list
                                    THEN ViewsAfterEvents(@[a], lastViews[a], check.views[a])
                                    ELSE @[a]]]
    /\ Finish(s, TRUE)
    /\ UNCHANGED <<device, lastApps, lastDebug>>

\* Any of the three questions may fail with a message that rejects: what was applied
\* before it stays.
QuestionFails(s) ==
    /\ checks[s].at \in {"apps", "debug", "views"}
    /\ Finish(s, FALSE)
    /\ UNCHANGED <<device, cached>>

Next ==
    \/ DeviceChanges
    \/ IntervalChecks
    \/ \E c \in Askers : IsApplicationInstalled(c)
    \/ \E s \in Slots :
          \/ ReadApps(s) \/ ApplyApps(s) \/ ReadDebuggable(s) \/ ApplyDebuggable(s)
          \/ ReadViews(s) \/ ApplyViews(s) \/ QuestionFails(s)

Spec == Init /\ [][Next]_vars

\* The interval comes round for ever, and the device answers each question again and
\* again, be it in part, even if it fails in between.
Fairness ==
    /\ WF_vars(IntervalChecks)
    /\ \A s \in Slots : /\ SF_vars(ReadApps(s)) /\ WF_vars(ApplyApps(s))
                        /\ SF_vars(ReadDebuggable(s)) /\ WF_vars(ApplyDebuggable(s))
                        /\ SF_vars(ReadViews(s)) /\ WF_vars(ApplyViews(s))

FairSpec == Spec /\ Fairness

-----------------------------------------------------------------------------
\* A subscriber of the events knows what the manager knows, and knows views only of
\* applications that can be debugged, whichever questions fail on the way.
SubscribersAgree ==
    /\ heard.apps = lastApps
    /\ heard.debug = lastDebug
    /\ heard.views = lastViews
    /\ \A a \in Apps : lastViews[a] # {} => a \in lastDebug

\* application-manager-base.ts:39-41: executions do not get into the body while another
\* is still working.  So no list replaces a later one, and no application is told
\* uninstalled and newly installed again for an answer that came late.
Shared == INSTANCE SharedPromise WITH
    Callers <- Askers, Bodies <- Slots, KeepsResult <- FALSE,
    phase <- IF promise = None THEN "none" ELSE "pending",
    bodies <- {s \in Slots : checks[s].at # "free"},
    waiting <- {c \in Askers : waits[c] # None},
    told <- [c \in Askers |-> IF answer[c] \in {"yes", "no"} THEN "ok"
                              ELSE IF answer[c] = "error" THEN "failed" ELSE "none"]

\* checkForApplicationUpdates implements SharedPromise, whoever of the interval and
\* the callers of isApplicationInstalled comes first and whichever question fails.
CheckIsShared == Shared!SharedSpec

\* isApplicationInstalled says something that was true of the device between its call
\* and its answer, if it started its own check (one that joins a check in flight may
\* be told what was true before it asked): a yes always, a no unless adb failed in the
\* middle of the list and nobody noticed.
FreshAnswers ==
    \A c \in Askers :
        /\ fresh[c] /\ answer[c] = "yes" => TRUE \in possible[c]
        /\ fresh[c] /\ answer[c] = "no" /\ ~misled[c] => FALSE \in possible[c]

\* What is not running is told lost in the end, and what stays installed is told, if
\* there is an end to the lists cut short: each of those tells the rest uninstalled.
EventsCatchUp ==
    \A a \in Apps :
        /\ <>[](a \in installed) /\ <>[](\A s \in Slots : ~checks[s].cut) => <>[](a \in heard.apps)
        /\ <>[](a \notin running) => <>[](a \notin heard.debug)
=============================================================================
