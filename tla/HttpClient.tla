----------------------------- MODULE HttpClient -----------------------------
(***************************************************************************)
(* The HTTP client (src/http-client.ts) and the proxy its requests go      *)
(* through: the proxy service, the commands that set and clear the cached  *)
(* proxy and the prompts `proxy set` works with.                           *)
(*                                                                         *)
(* A request is answered once, by whichever comes first: the end of the    *)
(* response, an error of the connection or the timer.  Its connection is   *)
(* not closed by the answer: after a timeout it still receives, and still  *)
(* writes what it receives into the caller's pipe.  The stream that        *)
(* decompresses and the pipe have no listener for their errors: one leaves *)
(* the promise to the timer, if there is one, or ends the process.         *)
(***************************************************************************)
EXTENDS Naturals

CONSTANTS
    Requests,     \* the requests of one run
    NoProxy,      \* no proxy is cached
    Urls,         \* the URLs a user may give `proxy set`: [valid, port, user, password]
    Logins,       \* the user names and passwords: [user, password]
    Empty         \* the empty string

Users == {l.user : l \in Logins}
Passwords == {l.password : l \in Logins}

ASSUME HttpAssumption ==
    /\ NoProxy \notin [user : Users, password : Passwords]
    /\ Empty \in Users /\ Empty \in Passwords
    /\ Urls # {}
    /\ \A u \in Urls :
          /\ u.valid \in BOOLEAN /\ u.port \in {"none", "good", "bad"}
          /\ u.user \in Users /\ u.password \in Passwords

VARIABLES
    cached,       \* the CLI's own proxy, kept in a file: NoProxy or its login
    request,      \* request[r]: the options, the connection and the answer
    setting,      \* `proxy set`: where it is and what it has so far
    interactive   \* whether there is a terminal to ask at

httpVars == <<cached, request, setting, interactive>>

----------------------------------------------------------------------------
(* The requests. *)

NotCalled ==
    [stage |-> "idle", timeout |-> FALSE, pipe |-> FALSE, own |-> FALSE, pipeTo |-> FALSE,
     via |-> "direct", timer |-> "none", status |-> "none", coded |-> FALSE, file |-> "empty", answer |-> "none"]

\* No `proxy set` is under way.
NotSetting == [step |-> "idle", url |-> CHOOSE u \in Urls : TRUE, user |-> Empty, password |-> Empty, asked |-> FALSE]

\* httpRequest, up to the await of the cached proxy: with or without a
\* timeout, a stream to pipe the body into and proxy settings of its own.
HttpRequest(r) ==
    /\ request[r].stage = "idle"
    /\ \E timeout, pipe, own \in BOOLEAN :
          request' = [request EXCEPT ![r] =
              [request[r] EXCEPT !.stage = "readsProxy", !.timeout = timeout, !.pipe = pipe, !.own = own, !.pipeTo = pipe]]
    /\ UNCHANGED <<cached, setting, interactive>>

\* useProxySettings: settings of the request's own come first, but the
\* credentials are read off the cached ones, there or not.
ProxyFor(own, cli) ==
    IF own THEN (IF cli = NoProxy THEN "throws" ELSE "own")
           ELSE (IF cli = NoProxy THEN "direct" ELSE "cached")

\* The proxy library could not read the file.
GetCacheFails(r) ==
    /\ request[r].stage = "readsProxy"
    /\ request' = [request EXCEPT ![r] = [request[r] EXCEPT !.stage = "over", !.answer = "failed"]]
    /\ UNCHANGED <<cached, setting, interactive>>

\* The cached proxy has been read: the timer is started and the request sent.
SendRequest(r) ==
    /\ request[r].stage = "readsProxy"
    /\ LET via == ProxyFor(request[r].own, cached)
       IN request' = [request EXCEPT ![r] =
             IF via = "throws"
             THEN [request[r] EXCEPT !.stage = "over", !.answer = "failed"]
             ELSE [request[r] EXCEPT !.stage = "sent", !.via = via, !.timer = IF request[r].timeout THEN "runs" ELSE "none"]]
    /\ UNCHANGED <<cached, setting, interactive>>

\* setResponseResult, on the request's record: the timer stops and the first
\* result is the answer.
ResponseResult(q, result) ==
    [q EXCEPT !.timer = IF @ = "runs" THEN "cleared" ELSE @,
              !.answer = IF @ = "none" THEN result ELSE @]

TimedOut(r) ==
    /\ request[r].timer = "runs"
    /\ request' = [request EXCEPT ![r] = ResponseResult([request[r] EXCEPT !.timer = "fired"], "timedOut")]
    /\ UNCHANGED <<cached, setting, interactive>>

\* "error": the connection, or the tunnel through the proxy, fails.
RequestError(r) ==
    /\ request[r].stage \in {"sent", "receives", "broken"}
    /\ request' = [request EXCEPT ![r] = ResponseResult([request[r] EXCEPT !.stage = "over"], "failed")]
    /\ UNCHANGED <<cached, setting, interactive>>

\* Mutant of Piped: pipeTo is kept whatever the status.
PipedWhatever(q, status) == q.pipeTo

\* "response": only a successful one is piped, and what it is piped into is
\* no longer empty.  Redirections have been followed by the request library,
\* one that is left is a failure like any other status.
Piped(q, status) == q.pipeTo /\ status = "success"

OnResponse(r) ==
    /\ request[r].stage = "sent"
    /\ \E status \in {"success", "failure"}, coded \in BOOLEAN :
          LET piped == Piped(request[r], status)
          IN request' = [request EXCEPT ![r] =
                [request[r] EXCEPT !.stage = "receives", !.status = status, !.coded = coded, !.pipeTo = piped,
                          !.file = IF piped THEN "partial" ELSE @]]
    /\ UNCHANGED <<cached, setting, interactive>>

\* "error" of the stream that decompresses (gzip, deflate) or of the pipe.  It
\* is nobody's, or the caller's own: what is piped stops, "finish" and "end"
\* do not come, and the process goes on where somebody listens, to the pipe or
\* for uncaught exceptions.
StreamError(r) ==
    /\ request[r].stage = "receives"
    /\ request[r].coded \/ request[r].pipeTo
    /\ request' = [request EXCEPT ![r].stage = "broken"]
    /\ UNCHANGED <<cached, setting, interactive>>

\* Where nobody does it ends the process, with everything under way in it; what
\* comes after is a new one.
UncaughtStreamError(r) ==
    /\ request[r].stage = "receives"
    /\ request[r].coded \/ request[r].pipeTo
    /\ request' = [o \in Requests |->
          IF request[o].stage \in {"idle", "over"} THEN request[o]
          ELSE [request[o] EXCEPT !.stage = "died", !.timer = IF @ = "runs" THEN "none" ELSE @]]
    /\ setting' = NotSetting
    /\ UNCHANGED <<cached, interactive>>

\* What the end of the response answers: "finish" of the pipe, or "end" of
\* the response whose body has been collected.
EndResult(q) == IF q.pipeTo \/ q.status = "success" THEN "response" ELSE "failed"

\* A connection that is closed early ends the response all the same; of a
\* compressed one the stream notices, and its end is an error.
OnEnd(r) ==
    /\ request[r].stage = "receives"
    /\ \E received \in IF request[r].coded THEN {"whole"} ELSE {"whole", "cut"} :
          request' = [request EXCEPT ![r] =
              ResponseResult([request[r] EXCEPT !.stage = "over", !.file = IF request[r].pipeTo THEN received ELSE @],
                             EndResult(request[r]))]
    /\ UNCHANGED <<cached, setting, interactive>>

----------------------------------------------------------------------------
(* `proxy set` *)

\* isPasswordRequired
PasswordRequired(s) == s.user # Empty /\ s.password = Empty

\* The default port of the protocol stands for one that is not given.
NoPort(u) == u.port = "bad"

\* Neither the name nor the password on the command line contradicts the URL.
Mismatch(u, login) ==
    \/ login.user # Empty /\ u.user # Empty /\ login.user # u.user
    \/ login.password # Empty /\ u.password # Empty /\ login.password # u.password

Or(given, other) == IF given # Empty THEN given ELSE other

\* The questions that are left, in their order: a port, a name (asked for
\* with an empty default) and a password.
NextStep(s) ==
    IF NoPort(s.url) /\ ~ s.asked THEN "asksPort"
    ELSE IF s.user = Empty /\ s.step # "asksUser" THEN "asksUser"
    ELSE IF PasswordRequired(s) THEN "asksPassword"
    ELSE "saves"

\* Everything between the URL and the first question.
WithUrl(s, u) ==
    LET merged == [s EXCEPT !.url = u, !.user = Or(s.user, u.user), !.password = Or(s.password, u.password)]
    IN IF ~ u.valid THEN [s EXCEPT !.step = IF interactive THEN "asksUrl" ELSE "fails"]
       ELSE IF Mismatch(u, s) THEN [s EXCEPT !.step = "fails"]
       ELSE IF ~ interactive /\ (NoPort(u) \/ PasswordRequired(merged)) THEN [merged EXCEPT !.step = "fails"]
       ELSE [merged EXCEPT !.step = NextStep(merged)]

\* ProxySetCommand.execute with its arguments; without a URL it asks for one.
ProxySet ==
    /\ setting.step = "idle"
    /\ \E login \in Logins :
          LET s == [NotSetting EXCEPT !.user = login.user, !.password = login.password]
          IN \/ \E u \in Urls : setting' = WithUrl(s, u)
             \/ setting' = [s EXCEPT !.step = IF interactive THEN "asksUrl" ELSE "fails"]
    /\ UNCHANGED <<cached, request, interactive>>

\* Without a terminal a prompt gives its default, or fails when it has none.
AnswerUrl ==
    /\ setting.step = "asksUrl"
    /\ \E u \in Urls : setting' = WithUrl(setting, u)
    /\ UNCHANGED <<cached, request, interactive>>

\* The port the user gives is asked for until it is valid; the proxy is saved
\* by its URL, which does not have it.
AnswerPort ==
    /\ setting.step = "asksPort"
    /\ LET s == [setting EXCEPT !.asked = TRUE] IN setting' = [s EXCEPT !.step = NextStep(s)]
    /\ UNCHANGED <<cached, request, interactive>>

AnswerUser ==
    /\ setting.step = "asksUser"
    /\ \E user \in Users :
          /\ interactive \/ user = Empty
          /\ LET s == [setting EXCEPT !.user = user] IN setting' = [s EXCEPT !.step = NextStep(s)]
    /\ UNCHANGED <<cached, request, interactive>>

AnswerPassword ==
    /\ setting.step = "asksPassword"
    /\ \E password \in Passwords \ {Empty} :
          LET s == [setting EXCEPT !.password = password] IN setting' = [s EXCEPT !.step = NextStep(s)]
    /\ UNCHANGED <<cached, request, interactive>>

\* setCache: the proxy library has written the file.
SetCache ==
    /\ setting.step = "saves"
    /\ cached' = [user |-> setting.user, password |-> setting.password]
    /\ setting' = NotSetting
    /\ UNCHANGED <<request, interactive>>

\* errors.fail ends the command; so does the prompt that cannot ask.
ProxySetFails ==
    /\ setting.step = "fails"
    /\ setting' = NotSetting
    /\ UNCHANGED <<cached, request, interactive>>

\* ProxyClearCommand
ProxyClear ==
    /\ cached # NoProxy
    /\ cached' = NoProxy
    /\ UNCHANGED <<request, setting, interactive>>

----------------------------------------------------------------------------
HttpInit ==
    /\ cached = NoProxy
    /\ request = [r \in Requests |-> NotCalled]
    /\ setting = NotSetting
    /\ interactive \in BOOLEAN

HttpNext ==
    \/ \E r \in Requests :
          \/ HttpRequest(r) \/ GetCacheFails(r) \/ SendRequest(r) \/ TimedOut(r) \/ RequestError(r)
          \/ OnResponse(r) \/ StreamError(r) \/ UncaughtStreamError(r) \/ OnEnd(r)
    \/ ProxySet \/ AnswerUrl \/ AnswerPort \/ AnswerUser \/ AnswerPassword \/ SetCache \/ ProxySetFails \/ ProxyClear

HttpSpec == HttpInit /\ [][HttpNext]_httpVars

\* The types; of the cached proxy: it never names a user without the password
\* the command insists on, whatever of the two came with the URL, the
\* arguments or a prompt.
HttpTypeOK ==
    /\ \/ cached = NoProxy
       \/ /\ cached \in [user : Users, password : Passwords]
          /\ cached.user # Empty => cached.password # Empty
    /\ request \in [Requests -> [stage : {"idle", "readsProxy", "sent", "receives", "broken", "over", "died"},
          timeout : BOOLEAN, pipe : BOOLEAN, own : BOOLEAN, pipeTo : BOOLEAN,
          via : {"direct", "cached", "own"}, timer : {"none", "runs", "cleared", "fired"},
          status : {"none", "success", "failure"}, coded : BOOLEAN, file : {"empty", "partial", "cut", "whole"},
          answer : {"none", "timedOut", "failed", "response"}]]
    /\ setting \in [step : {"idle", "asksUrl", "asksPort", "asksUser", "asksPassword", "saves", "fails"},
                   url : Urls, user : Users, password : Passwords, asked : BOOLEAN]
    /\ interactive \in BOOLEAN

\* A caller is not left waiting and is not told what is not so: while a
\* request with a timeout is under way and not answered its timer runs, so a
\* server that falls silent, before or in the middle of its response, is
\* noticed, and so is a stream whose error nobody heard; a response is only
\* handed over when its status was a success and, where a stream to pipe it
\* into was given, that stream has everything that was received, which of a
\* compressed response is all of it; only a request that asked for a timeout
\* times out; and one that is over is answered.
RequestsAreAnswered ==
    \A r \in Requests :
        LET q == request[r]
        IN /\ q.timeout /\ q.answer = "none" /\ q.stage \notin {"idle", "readsProxy", "died"} => q.timer = "runs"
           /\ q.answer = "response" => /\ q.status = "success"
                                       /\ q.pipe => q.file \in (IF q.coded THEN {"whole"} ELSE {"whole", "cut"})
           /\ q.answer = "timedOut" => q.timeout
           /\ q.stage = "over" => q.answer # "none"
=============================================================================
