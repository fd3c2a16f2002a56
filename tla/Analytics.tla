----------------------------- MODULE Analytics -----------------------------
(***************************************************************************)
(* AnalyticsServiceBase in one process of the CLI.  The process runs one   *)
(* command; the listener of uncaught exceptions and of unhandled           *)
(* rejections may report an exception at any time meanwhile.  A caller is  *)
(* the command or one such exception; its calls are asynchronous, so what  *)
(* it still has to do is a sequence of segments, each of them run without  *)
(* interruption between two awaits (todo).                                 *)
(***************************************************************************)
EXTENDS Naturals, Sequences, FiniteSets, SequencesExt

CONSTANTS
    Exceptions,     \* the callers that report an uncaught exception
    FeatureKeys,    \* featureTrackingAPIKeys and acceptUsageReportingAPIKeys
    ExceptionKeys,  \* exceptionsTrackingAPIKeys
    MaxInterrupts   \* how often the user interrupts the process (bound)

Usage == "usage"        \* TRACK_FEATURE_USAGE_SETTING_NAME
Errors == "errors"      \* ERROR_REPORT_SETTING_NAME
Settings == {Usage, Errors}
Callers == {"command"} \cup Exceptions
Keys == Range(FeatureKeys) \cup Range(ExceptionKeys)

ASSUME AnalyticsAssumption ==
    /\ "command" \notin Exceptions /\ MaxInterrupts \in Nat
    /\ FeatureKeys \in Seq(Range(FeatureKeys)) /\ ExceptionKeys \in Seq(Range(ExceptionKeys))

VARIABLES
    todo,       \* what each caller still has to do
    statuses,   \* analyticsStatuses
    stored,     \* the values in the file of the user settings
    init,       \* the promise that @cache keeps for initAnalyticsStatuses
    monitors,   \* every monitor created: its key and state, the number is its identity
    current,    \* eqatecMonitors: key -> the number of its monitor, 0 when it has none
    listening,  \* tryStopEqatecMonitors is attached to the exit signals
    analyticsProcess,
    interrupts,
    wish,       \* history: what the user last wanted of each setting
    wished,     \* history: the settings wanted at some time since the caller's call began
    sent        \* history: what was handed to a monitor

analyticsVars == <<todo, statuses, stored, init, monitors, current, listening, analyticsProcess, interrupts,
                   wish, wished, sent>>

----------------------------------------------------------------------------
(* Calls, as the segments they consist of *)

\* What is sent: a feature or an exception; the answer to the question; the version
\* of node, which goes with what its session is started for.
Tracking(s) == [setting |-> s, answer |-> FALSE, version |-> FALSE]
Answer == [setting |-> Usage, answer |-> TRUE, version |-> FALSE]
NodeVersion(item) == [item EXCEPT !.version = TRUE]

Do(segment) == <<[do |-> segment]>>
GetStatus(s) == <<[do |-> "getStatus", setting |-> s]>>
SetStatus(s, enabled) == <<[do |-> "setStatus", setting |-> s, enabled |-> enabled]>>
Track(s) == Do("initStatuses") \o <<[do |-> "track", item |-> Tracking(s)]>>
TrackException == Track(Errors)

Send(key, item) == <<[do |-> "send", key |-> key, item |-> item]>>
\* sendDataToEqatecMonitors, in a try block that swallows what it throws.
TrySend(keys, item) == [i \in DOMAIN keys |-> [do |-> "send", key |-> keys[i], item |-> item]] \o Do("endTry")

\* What CommandsService and the commands ask of the service.
CommandCalls ==
    {Do("checkConsent"), Track(Usage) \o Do("endTry"), Do("checkConsent") \o Track(Usage) \o Do("body")}
    \cup UNION {{GetStatus(s), SetStatus(s, TRUE) \o Track(Usage), Track(Usage) \o SetStatus(s, FALSE)} : s \in Settings}

Segment(c, do) == analyticsProcess = "runs" /\ todo[c] # <<>> /\ Head(todo[c]).do = do

\* The segment ends; the call goes on with others before what it had to do.
Then(c, segments) == todo' = [todo EXCEPT ![c] = segments \o Tail(@)]

\* What is left when a segment throws: the rest after its try block, or, when the
\* command does not catch it, the report of Errors and the end of the process.
AfterReject(c) ==
    LET catches == {i \in DOMAIN todo[c] : todo[c][i].do = "endTry"}
    IN  IF catches # {} THEN SubSeq(todo[c], Min(catches) + 1, Len(todo[c]))
        ELSE TrackException \o Do("endTry") \o Do("exit")

\* The promise of initAnalyticsStatuses is rejected with the call that runs it.
Reject(c) ==
    /\ todo' = [todo EXCEPT ![c] = AfterReject(c)]
    /\ init' = IF \E i \in DOMAIN todo[c] : todo[c][i].do = "initDone" THEN "failed" ELSE init

----------------------------------------------------------------------------
(* Statuses *)

AnalyticsInit ==
    /\ \E call \in CommandCalls : todo = [c \in Callers |-> IF c = "command" THEN call ELSE Do("report")]
    /\ statuses = [s \in Settings |-> "unloaded"]
    /\ stored \in [Settings -> {"notConfirmed", "enabled", "disabled"}]
    /\ init = "no" /\ monitors = <<>> /\ current = [k \in Keys |-> 0] /\ listening = FALSE
    /\ analyticsProcess = "runs" /\ interrupts = 0
    /\ wish = [s \in Settings |-> stored[s] = "enabled"]
    /\ wished = [c \in Callers |-> {s \in Settings : wish[s]}]
    /\ sent = {}

\* The listener of uncaughtException and unhandledRejection; the action given to
\* it may be to exit.
ReportException(c) ==
    /\ Segment(c, "report") /\ todo["command"] # <<>>
    /\ \E last \in {<<>>, Do("exit")} : Then(c, TrackException \o Do("endTry") \o last)
    /\ wished' = [wished EXCEPT ![c] = {s \in Settings : wish[s]}]
    /\ UNCHANGED <<statuses, stored, init, monitors, current, listening, analyticsProcess, interrupts, wish, sent>>

StatusUnchanged == UNCHANGED <<monitors, current, listening, analyticsProcess, interrupts, sent>>

\* The first segment of checkConsent: canDoRequest.
CheckConsent(c) ==
    /\ Segment(c, "checkConsent")
    /\ \E can \in BOOLEAN : Then(c, IF can THEN GetStatus(Usage) \o Do("confirm") ELSE <<>>)
    /\ StatusUnchanged /\ UNCHANGED <<statuses, stored, init, wish, wished>>

\* The user is asked when usage tracking was never confirmed; error reports follow
\* the answer when they were not confirmed either.
Confirm(c) ==
    /\ Segment(c, "confirm")
    /\ LET Follow(use) == GetStatus(Errors) \o <<[do |-> "confirmErrors", enabled |-> use]>>
       IN  \/ Then(c, Follow(statuses[Usage] = "enabled"))
           \/ /\ statuses[Usage] = "notConfirmed"
              /\ \E yes \in BOOLEAN : Then(c, SetStatus(Usage, yes) \o Do("tell") \o Follow(yes))
    /\ StatusUnchanged /\ UNCHANGED <<statuses, stored, init, wish, wished>>

\* trackAcceptFeatureUsage: its try block begins once the answer is saved.
TellAnswer(c) ==
    /\ Segment(c, "tell")
    /\ Then(c, TrySend(FeatureKeys, Answer))
    /\ StatusUnchanged /\ UNCHANGED <<statuses, stored, init, wish, wished>>

ConfirmErrors(c) ==
    /\ Segment(c, "confirmErrors")
    /\ Then(c, IF statuses[Errors] = "notConfirmed" /\ statuses[Usage] # "notConfirmed"
               THEN SetStatus(Errors, Head(todo[c]).enabled) ELSE <<>>)
    /\ StatusUnchanged /\ UNCHANGED <<statuses, stored, init, wish, wished>>

\* getStatus looks in memory first; Load is what it does when the file was read.
GetStatusOf(c) ==
    /\ Segment(c, "getStatus")
    /\ LET s == Head(todo[c]).setting
       IN  Then(c, IF statuses[s] = "unloaded" THEN <<[do |-> "load", setting |-> s]>> ELSE <<>>)
    /\ StatusUnchanged /\ UNCHANGED <<statuses, stored, init, wish, wished>>

Load(c) ==
    /\ Segment(c, "load")
    /\ LET s == Head(todo[c]).setting
       IN  \/ statuses' = [statuses EXCEPT ![s] = stored[s]] /\ Then(c, <<>>) /\ init' = init
           \/ Reject(c) /\ UNCHANGED statuses
    /\ StatusUnchanged /\ UNCHANGED <<stored, wish, wished>>

\* initAnalyticsStatuses, with @cache: one call runs, the others share its promise.
InitStatuses(c) ==
    /\ Segment(c, "initStatuses")
    /\ \/ /\ init = "no" /\ init' = "pending"
          /\ \E can \in BOOLEAN :
                Then(c, (IF can THEN GetStatus(Usage) \o GetStatus(Errors) ELSE <<>>) \o Do("initDone"))
       \/ init = "done" /\ Then(c, <<>>) /\ init' = init
       \/ init = "failed" /\ Reject(c)
    /\ StatusUnchanged /\ UNCHANGED <<statuses, stored, wish, wished>>

InitDone(c) ==
    /\ Segment(c, "initDone")
    /\ init' = "done" /\ Then(c, <<>>)
    /\ StatusUnchanged /\ UNCHANGED <<statuses, stored, wish, wished>>

\* setStatus: the status is changed at once, then the setting is saved.
BeginSetStatus(c) ==
    /\ Segment(c, "setStatus")
    /\ LET s == Head(todo[c]).setting
           on == Head(todo[c]).enabled
       IN  /\ statuses' = [statuses EXCEPT ![s] = IF on THEN "enabled" ELSE "disabled"]
           /\ wish' = [wish EXCEPT ![s] = on]
           /\ wished' = [d \in Callers |-> IF on THEN wished[d] \cup {s} ELSE IF d = c THEN wished[d] \ {s} ELSE wished[d]]
           /\ Then(c, <<[do |-> "save", setting |-> s, enabled |-> on]>>)
    /\ StatusUnchanged /\ UNCHANGED <<stored, init>>

----------------------------------------------------------------------------
(* Monitors *)

\* tryStopEqatecMonitors
TryStopEqatecMonitors ==
    /\ monitors' = [m \in DOMAIN monitors |->
          IF current[monitors[m].key] = m
          THEN [monitors[m] EXCEPT !.state = "stopped", !.kept = @ /\ monitors[m].state = "running"]
          ELSE monitors[m]]
    /\ current' = [k \in Keys |-> 0]

\* The rest of setStatus.  Both operands of its condition are the same: turning
\* one setting off stops every monitor, when the status is still the one that was
\* set: a load that was under way may have put the old one back.
Save(c) ==
    /\ Segment(c, "save")
    /\ LET s == Head(todo[c]).setting
       IN  \/ /\ stored' = [stored EXCEPT ![s] = IF Head(todo[c]).enabled THEN "enabled" ELSE "disabled"]
              /\ Then(c, <<>>) /\ init' = init
              /\ IF statuses[s] = "disabled" THEN TryStopEqatecMonitors ELSE UNCHANGED <<monitors, current>>
           \/ Reject(c) /\ UNCHANGED <<stored, monitors, current>>
    /\ UNCHANGED <<statuses, listening, analyticsProcess, interrupts, wish, wished, sent>>

SendUnchanged == UNCHANGED <<statuses, stored, analyticsProcess, interrupts, wish, wished>>

\* Mutant of TrackItem: whatever is not turned off is tracked.
TrackUnlessDisabled(c) ==
    /\ Segment(c, "track")
    /\ LET item == Head(todo[c]).item
       IN  Then(c, IF statuses[item.setting] # "disabled" THEN <<[do |-> "request", item |-> item]>> ELSE <<>>)
    /\ SendUnchanged /\ UNCHANGED <<init, monitors, current, listening, sent>>

\* track and trackException, when the statuses are there.
TrackItem(c) ==
    /\ Segment(c, "track")
    /\ LET item == Head(todo[c]).item
       IN  Then(c, IF statuses[item.setting] = "enabled" THEN <<[do |-> "request", item |-> item]>> ELSE <<>>)
    /\ SendUnchanged /\ UNCHANGED <<init, monitors, current, listening, sent>>

\* canDoRequest, then the data is sent.
Request(c) ==
    /\ Segment(c, "request")
    /\ LET item == Head(todo[c]).item
           keys == IF item.setting = Usage THEN FeatureKeys ELSE ExceptionKeys
       IN  \E can \in BOOLEAN : Then(c, IF can THEN TrySend(keys, item) ELSE <<>>)
    /\ SendUnchanged /\ UNCHANGED <<init, monitors, current, listening, sent>>

Use(m, item) == <<[do |-> "use", monitor |-> m, item |-> item]>>

\* Mutant of StartForKey: the monitor of the key is taken for granted.
UseForKey(c) ==
    /\ Segment(c, "send")
    /\ Then(c, Use(current[Head(todo[c]).key], Head(todo[c]).item))
    /\ SendUnchanged /\ UNCHANGED <<init, monitors, current, listening, sent>>

\* start: the monitor of the key if there is one, else its settings are read.
StartForKey(c) ==
    /\ Segment(c, "send")
    /\ LET key == Head(todo[c]).key
           item == Head(todo[c]).item
       IN  Then(c, IF current[key] # 0 THEN Use(current[key], item)
                   ELSE <<[do |-> "create", key |-> key, item |-> item]>>)
    /\ SendUnchanged /\ UNCHANGED <<init, monitors, current, listening, sent>>

\* Mutant of StartEqatecMonitor: it does not look again for the monitor of the key.
StartEqatecMonitorBlindly(c) ==
    /\ Segment(c, "create")
    /\ LET key == Head(todo[c]).key
           item == Head(todo[c]).item
       IN  /\ monitors' = Append(monitors, [key |-> key, state |-> "created", kept |-> TRUE])
           /\ current' = [current EXCEPT ![key] = Len(monitors) + 1]
           /\ Then(c, <<[do |-> "start", monitor |-> Len(monitors) + 1, item |-> item]>>) /\ init' = init
    /\ SendUnchanged /\ UNCHANGED <<listening, sent>>

\* startEqatecMonitor up to setUserID: it looks again, creates and registers the monitor.
StartEqatecMonitor(c) ==
    /\ Segment(c, "create")
    /\ LET key == Head(todo[c]).key
           item == Head(todo[c]).item
       IN  \/ /\ current[key] # 0
              /\ Then(c, Use(current[key], item)) /\ UNCHANGED <<init, monitors, current>>
           \/ /\ current[key] = 0
              /\ monitors' = Append(monitors, [key |-> key, state |-> "created", kept |-> TRUE])
              /\ current' = [current EXCEPT ![key] = Len(monitors) + 1]
              /\ Then(c, <<[do |-> "start", monitor |-> Len(monitors) + 1, item |-> item]>>) /\ init' = init
           \/ Reject(c) /\ UNCHANGED <<monitors, current>>
    /\ SendUnchanged /\ UNCHANGED <<listening, sent>>

\* The rest of startEqatecMonitor: start the session, end it with the process, and
\* report the version of node, a feature of its own that no status is asked about
\* and that asks for the monitor of the key once more.
StartSession(c) ==
    /\ Segment(c, "start")
    /\ LET m == Head(todo[c]).monitor
           item == Head(todo[c]).item
       IN  \/ /\ monitors' = [monitors EXCEPT ![m].state = "running"] /\ listening' = TRUE
              /\ Then(c, Send(monitors[m].key, NodeVersion(item)) \o Use(m, item)) /\ init' = init
           \/ Reject(c) /\ UNCHANGED <<monitors, listening>>
    /\ SendUnchanged /\ UNCHANGED <<current, sent>>

\* The action on the monitor; waitForSending ends at the latest after MAX_WAIT_SENDING_INTERVAL.
UseMonitor(c) ==
    /\ Segment(c, "use")
    /\ LET item == Head(todo[c]).item
       IN  sent' = sent \cup {[item |-> item, wanted |-> item.setting \in wished[c], usage |-> Usage \in wished[c]]}
    /\ Then(c, <<>>)
    /\ SendUnchanged /\ UNCHANGED <<init, monitors, current, listening>>

----------------------------------------------------------------------------
(* The command and the process *)

EndTry(c) ==
    /\ Segment(c, "endTry") /\ Then(c, <<>>)
    /\ SendUnchanged /\ UNCHANGED <<init, monitors, current, listening, sent>>

\* The command itself, which may throw.
Body(c) ==
    /\ Segment(c, "body")
    /\ \/ Then(c, <<>>) /\ init' = init
       \/ Reject(c)
    /\ SendUnchanged /\ UNCHANGED <<monitors, current, listening, sent>>

\* process.exit, or nothing is left to run: the exit listeners are called.
Exit ==
    /\ analyticsProcess = "runs"
    /\ \/ \E c \in Callers : Segment(c, "exit")
       \/ \A c \in Callers : todo[c] \in {<<>>, Do("report")}
    /\ analyticsProcess' = "ended"
    /\ IF listening THEN TryStopEqatecMonitors ELSE UNCHANGED <<monitors, current>>
    /\ UNCHANGED <<todo, statuses, stored, init, listening, interrupts, wish, wished, sent>>

\* SIGINT: the listeners replace the default, so the process they stop lives on.
Interrupt ==
    /\ analyticsProcess = "runs" /\ interrupts < MaxInterrupts /\ interrupts' = interrupts + 1
    /\ IF listening THEN TryStopEqatecMonitors /\ UNCHANGED analyticsProcess
       ELSE analyticsProcess' = "ended" /\ UNCHANGED <<monitors, current>>
    /\ UNCHANGED <<todo, statuses, stored, init, listening, wish, wished, sent>>

AnalyticsNext ==
    \/ \E c \in Callers :
          \/ ReportException(c) \/ CheckConsent(c) \/ Confirm(c) \/ TellAnswer(c) \/ ConfirmErrors(c) \/ GetStatusOf(c) \/ Load(c)
          \/ InitStatuses(c) \/ InitDone(c) \/ BeginSetStatus(c) \/ Save(c) \/ TrackItem(c) \/ Request(c)
          \/ StartForKey(c) \/ StartEqatecMonitor(c) \/ StartSession(c) \/ UseMonitor(c) \/ EndTry(c) \/ Body(c)
    \/ Exit \/ Interrupt

AnalyticsSpec == AnalyticsInit /\ [][AnalyticsNext]_analyticsVars

----------------------------------------------------------------------------
(* Properties *)

AnalyticsTypeOK ==
    /\ statuses \in [Settings -> {"unloaded", "notConfirmed", "enabled", "disabled"}]
    /\ stored \in [Settings -> {"notConfirmed", "enabled", "disabled"}]
    /\ init \in {"no", "pending", "done", "failed"}
    /\ \A m \in DOMAIN monitors : monitors[m].key \in Keys /\ monitors[m].state \in {"created", "running", "stopped"}
    /\ current \in [Keys -> 0 .. Len(monitors)]
    /\ listening \in BOOLEAN /\ analyticsProcess \in {"runs", "ended"} /\ interrupts \in 0 .. MaxInterrupts
    /\ wish \in [Settings -> BOOLEAN] /\ wished \in [Callers -> SUBSET Settings]
    /\ \A c \in Callers : \A i \in DOMAIN todo[c] :
          todo[c][i].do \in {"use", "start"} => todo[c][i].monitor \in DOMAIN monitors

\* Nothing is handed to a monitor against the user's wish: except for the answer to
\* the question itself, whoever sends did so while the user wanted it, or when the
\* user had wanted it at some time since the call began.  The version of node is a
\* feature, and it is handed over while the user does not want features only by a
\* session that is started for the answer or for an exception the user wants sent.
ConsentRespected ==
    \A x \in sent :
        IF x.item.version THEN x.usage \/ x.item.answer \/ (x.item.setting = Errors /\ x.wanted)
        ELSE x.item.answer \/ x.wanted

\* No session is forgotten: a monitor that runs is the one of its key, so that the
\* next stop ends it, unless it was stopped before it was started; and no monitor
\* of the map runs when the process has ended by itself.
MonitorsAreStopped ==
    /\ \A m \in DOMAIN monitors :
          monitors[m].state = "running" /\ monitors[m].kept => current[monitors[m].key] = m
    /\ analyticsProcess = "ended" => \A k \in Keys : current[k] = 0 \/ monitors[current[k]].state = "created"
============================================================================
