-------------------------------- MODULE Saga --------------------------------
(***************************************************************************)
(* What a run of a pipeline promises its caller, without the loop, the     *)
(* retries and the store: steps complete in their order, each one once; a  *)
(* run succeeds only when all of them are done; when a step fails, the     *)
(* undoable steps before it are compensated one by one, the latest first,  *)
(* and the run reports the error only after the last of them.  The engine  *)
(* of Pipeline implements it (PipelineSaga, ImplementsSaga).               *)
(***************************************************************************)
EXTENDS Integers

CONSTANTS Pipelines, NumSteps, Undoable

VARIABLES
  at,        \* "down", "idle", "run" or "undo"
  pipe,      \* the pipeline
  done,      \* the steps taken for done
  failedAt,  \* the step that failed
  outcome    \* of the latest run

vars == <<at, pipe, done, failedAt, outcome>>

Steps(p) == 1 .. NumSteps[p]

Lowest(s, S) == s \in S /\ \A t \in S : s <= t
Highest(s, S) == s \in S /\ \A t \in S : t <= s

Missing == Steps(pipe) \ done
ToCompensate == {s \in Undoable[pipe] \cap done : s < failedAt}

Init ==
  /\ at = "down"
  /\ pipe \in Pipelines
  /\ done = {} /\ failedAt = 0 /\ outcome = "none"

\* A process takes the pipeline up, knowing some steps to be done.
Open(p) ==
  /\ at = "down" /\ at' = "idle"
  /\ pipe' = p /\ done' \in SUBSET Steps(p)
  /\ failedAt' = 0 /\ outcome' = "none"

\* A run begins; the caller may ask for the steps from s on to be repeated.
Start(s) ==
  /\ at = "idle" /\ at' = "run"
  /\ done' = done \ (s .. NumSteps[pipe])
  /\ failedAt' = 0 /\ outcome' = "none"
  /\ UNCHANGED pipe

Reset == at = "idle" /\ done' = {} /\ UNCHANGED <<at, pipe, failedAt, outcome>>

Complete(s) ==
  /\ at = "run" /\ Lowest(s, Missing)
  /\ done' = done \cup {s}
  /\ UNCHANGED <<at, pipe, failedAt, outcome>>

Fail(s) ==
  /\ at = "run" /\ Lowest(s, Missing)
  /\ at' = "undo" /\ failedAt' = s
  /\ UNCHANGED <<pipe, done, outcome>>

Compensate(s) ==
  /\ at = "undo" /\ Highest(s, ToCompensate)
  /\ done' = done \ {s}
  /\ UNCHANGED <<at, pipe, failedAt, outcome>>

Return(result) ==
  /\ \/ at = "run" /\ Missing = {} /\ result = "ok"
     \/ at = "undo" /\ ToCompensate = {} /\ result = "err"
  /\ at' = "idle" /\ outcome' = result
  /\ UNCHANGED <<pipe, done, failedAt>>

\* The process ends, at any time.
Stop ==
  /\ at # "down" /\ at' = "down"
  /\ done' = {} /\ failedAt' = 0 /\ outcome' = "none"
  /\ UNCHANGED pipe

Next ==
  \/ \E p \in Pipelines : Open(p)
  \/ \E s \in 1 .. NumSteps[pipe] + 1 : Start(s)
  \/ \E s \in Steps(pipe) : Complete(s) \/ Fail(s) \/ Compensate(s)
  \/ \E r \in {"ok", "err"} : Return(r)
  \/ Reset \/ Stop

Spec == Init /\ [][Next]_vars
=============================================================================
