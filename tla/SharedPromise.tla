--------------------------- MODULE SharedPromise ---------------------------
(***************************************************************************)
(* What a method promises whose callers share one execution of its body:   *)
(* a promise in a field, which a call returns when it is there and makes   *)
(* otherwise.  One body runs at a time, whoever waits for it is told how   *)
(* it ended, all of them alike and at once, and nobody is told anything    *)
(* else.  DevicesService.initialize and ApplicationManagerBase             *)
(* .checkForApplicationUpdates are shown to implement it.                  *)
(***************************************************************************)

CONSTANTS
    Callers,        \* those whose waiting is seen; others may call, too
    Bodies,         \* names of executions of the body
    KeepsResult     \* whether a promise that was fulfilled answers later calls

VARIABLES
    phase,          \* the promise in the field
    bodies,         \* the executions in flight
    waiting,        \* the callers that wait
    told            \* what each caller was told last

sharedVars == <<phase, bodies, waiting, told>>

SharedInit ==
    /\ phase = "none" /\ bodies = {} /\ waiting = {}
    /\ told = [c \in Callers |-> "none"]

\* The promise is there, or a body is started and makes it.
PendingOrStarted ==
    /\ phase' = "pending"
    /\ \/ phase = "none" /\ \E b \in Bodies : bodies' = {b}
       \/ phase = "pending" /\ UNCHANGED bodies

\* A call that has to wait, ...
Wait(c) ==
    /\ c \notin waiting
    /\ PendingOrStarted
    /\ waiting' = waiting \cup {c} /\ told' = [told EXCEPT ![c] = "none"]

\* ... one whose waiting is not seen, ...
WaitUnseen == PendingOrStarted /\ UNCHANGED <<waiting, told>>

\* ... and one that the kept result answers.
Kept(c) ==
    /\ phase = "resolved" /\ c \notin waiting
    /\ told' = [told EXCEPT ![c] = "ok"] /\ UNCHANGED <<phase, bodies, waiting>>

\* The body ends, for all who wait.
Settle(outcome) ==
    /\ phase = "pending"
    /\ phase' = IF outcome = "ok" /\ KeepsResult THEN "resolved" ELSE "none"
    /\ bodies' = {} /\ waiting' = {}
    /\ told' = [c \in Callers |-> IF c \in waiting THEN outcome ELSE told[c]]

SharedNext ==
    \/ \E c \in Callers : Wait(c) \/ Kept(c)
    \/ WaitUnseen
    \/ \E outcome \in {"ok", "failed"} : Settle(outcome)

SharedSpec == SharedInit /\ [][SharedNext]_sharedVars
============================================================================
