--------------------------- MODULE ChildProcesses ---------------------------
(***************************************************************************)
(* How a process that has been started answers its caller                  *)
(* (src/child-process.ts).  A process ends with an exit code, or fails     *)
(* with an error instead of (or before) ending.                            *)
(***************************************************************************)

\* The ways a process goes: it could not be started, or ended.
Endings == {"error", "zero", "nonzero"}

\* exec: stdout, or the rejection.
Exec(ending) == IF ending = "zero" THEN "resolved" ELSE "rejected"

\* spawnFromEvent: the first of the event and "error" settles the promise;
\* with throwError FALSE whatever happens resolves it, to be looked at by the
\* caller.
SpawnFromEvent(ending, throwError) == IF throwError /\ ending # "zero" THEN "rejected" ELSE "resolved"
=============================================================================
