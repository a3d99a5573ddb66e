------------------------------ MODULE Pipeline ------------------------------
(***************************************************************************)
(* The step engine of cluster/pipeline/pipeline.go together with the       *)
(* pipeline_runs table of cluster/data/store/store.go that it persists to. *)
(*                                                                         *)
(* A pipeline is a list of steps 1 .. NumSteps[p].  Run executes them in   *)
(* order, skips those already completed, retries a failing Do, and on a    *)
(* final failure rolls the earlier steps back.  What Do and Undo change in *)
(* the outside world is left to the modules that use the engine: they      *)
(* conjoin their own effect to Attempt(ok) and UndoStep.                   *)
(*                                                                         *)
(* Every write to the store is a step of its own, so a crash may fall      *)
(* between any two of them.                                                *)
(***************************************************************************)
EXTENDS Integers

CONSTANTS
  Pipelines,  \* pipeline names
  NumSteps,   \* number of steps of each pipeline
  Undoable,   \* the steps of each pipeline whose Undo is not nil
  Retry,      \* Step.Retry of each step
  Faults      \* environment faults considered: "crash", "db", ...

ASSUME PipelineAssumption ==
  /\ NumSteps \in [Pipelines -> Nat]
  /\ Undoable \in [Pipelines -> SUBSET Nat]
  /\ \A p \in Pipelines : Retry[p] \in [1 .. NumSteps[p] -> Nat]

VARIABLES
  pc,         \* control state of the process that owns the Pipeline object
  pipe,       \* the pipeline it runs
  persist,    \* Pipeline.Persist # nil
  completed,  \* State.Completed, in memory
  cur,        \* the step the loop of Run or rollback is at
  attempt,    \* attempts made of the current step's Do
  failedAt,   \* argument of the last rollback
  outcome,    \* result of the last Run
  rows,       \* durable: table pipeline_runs, one status per step
  lost        \* history: a store operation has failed

engineVars == <<pc, pipe, persist, completed, cur, attempt, failedAt, outcome, rows, lost>>

Steps(p) == 1 .. NumSteps[p]
RowStatus == {"absent", "running", "failed", "completed"}
NoRows(p) == [s \in Steps(p) |-> "absent"]

Running == pc \notin {"down", "idle"}

EngineInit ==
  /\ pc = "down"
  /\ pipe \in Pipelines
  /\ persist = FALSE
  /\ completed = {}
  /\ cur = 0 /\ attempt = 0 /\ failedAt = 0
  /\ outcome = "none"
  /\ rows = [p \in Pipelines |-> NoRows(p)]
  /\ lost = FALSE

-----------------------------------------------------------------------------
(* The store.  Every write may fail ("db"); the engine ignores the error.  *)

PutRows(r) ==
  \/ persist /\ rows' = [rows EXCEPT ![pipe] = r] /\ UNCHANGED lost
  \/ ~persist /\ UNCHANGED <<rows, lost>>
  \/ persist /\ "db" \in Faults /\ lost' = TRUE /\ UNCHANGED rows

LoadPipelineSteps(p) == {s \in Steps(p) : rows[p][s] = "completed"}

\* INSERT OR IGNORE: a row that is already there keeps its status.
StartPipelineStep(s) ==
  PutRows([rows[pipe] EXCEPT ![s] = IF @ = "absent" THEN "running" ELSE @])

SavePipelineStep(s) == PutRows([rows[pipe] EXCEPT ![s] = "completed"])

FailPipelineStep(s) == PutRows([rows[pipe] EXCEPT ![s] = "failed"])

\* Deletes the rows of the whole pipeline, not those of one step.
DeletePipeline == PutRows(NoRows(pipe))

-----------------------------------------------------------------------------
(* A process starts and builds its Pipeline object.  A failing OpenStore   *)
(* leaves Persist nil; a failing load restores nothing.                    *)

\* Mutated form of New: the saved steps are not restored.
NewFromScratch(p) ==
  /\ pc = "down"
  /\ pc' = "idle"
  /\ pipe' = p
  /\ persist' = TRUE /\ completed' = {}
  /\ cur' = 0 /\ attempt' = 0 /\ failedAt' = 0
  /\ outcome' = "none"
  /\ UNCHANGED <<rows, lost>>

New(p) ==
  /\ pc = "down"
  /\ pc' = "idle"
  /\ pipe' = p
  /\ \/ persist' = TRUE /\ completed' = LoadPipelineSteps(p) /\ UNCHANGED lost
     \/ "db" \in Faults /\ persist' \in BOOLEAN /\ completed' = {} /\ lost' = TRUE
  /\ cur' = 0 /\ attempt' = 0 /\ failedAt' = 0
  /\ outcome' = "none"
  /\ UNCHANGED rows

EnterRun(done) ==
  /\ pc = "idle"
  /\ pc' = "loop"
  /\ completed' = done
  /\ cur' = 1 /\ attempt' = 0 /\ failedAt' = 0
  /\ outcome' = "none"
  /\ UNCHANGED <<pipe, persist, rows, lost>>

Run == EnterRun(completed)

\* Mutated form of RetryFrom: only the named step is forgotten.
RetryFromOnlyIt(s) == s \in Steps(pipe) /\ EnterRun(completed \ {s})

\* Forgets the named step and the ones after it, in memory only.
RetryFrom(s) == s \in Steps(pipe) /\ EnterRun(completed \ (s .. NumSteps[pipe]))

Reset ==
  /\ pc = "idle"
  /\ completed' = {}
  /\ UNCHANGED <<pc, pipe, persist, cur, attempt, failedAt, outcome, rows, lost>>

-----------------------------------------------------------------------------
(* The forward loop of Run.                                                *)

Skip ==
  /\ pc = "loop"
  /\ cur \in Steps(pipe) \cap completed
  /\ cur' = cur + 1
  /\ UNCHANGED <<pc, pipe, persist, completed, attempt, failedAt, outcome, rows, lost>>

Begin ==
  /\ pc = "loop"
  /\ cur \in Steps(pipe) \ completed
  /\ StartPipelineStep(cur)
  /\ pc' = "do"
  /\ attempt' = 1
  /\ UNCHANGED <<pipe, persist, completed, cur, failedAt, outcome>>

\* Mutated form of Attempt: the error of the last attempt is not returned.
AttemptSwallowed(ok) ==
  /\ pc = "do"
  /\ \/ (ok \/ attempt > Retry[pipe][cur]) /\ pc' = "save" /\ UNCHANGED attempt
     \/ ~ok /\ attempt <= Retry[pipe][cur] /\ attempt' = attempt + 1 /\ UNCHANGED pc
  /\ UNCHANGED <<pipe, persist, completed, cur, failedAt, outcome, rows, lost>>

\* One call of Do inside executeStep.
Attempt(ok) ==
  /\ pc = "do"
  /\ \/ ok /\ pc' = "save" /\ UNCHANGED attempt
     \/ ~ok /\ attempt <= Retry[pipe][cur] /\ attempt' = attempt + 1 /\ UNCHANGED pc
     \/ ~ok /\ attempt > Retry[pipe][cur] /\ pc' = "fail" /\ UNCHANGED attempt
  /\ UNCHANGED <<pipe, persist, completed, cur, failedAt, outcome, rows, lost>>

Save ==
  /\ pc = "save"
  /\ completed' = completed \cup {cur}
  /\ SavePipelineStep(cur)
  /\ cur' = cur + 1
  /\ pc' = "loop"
  /\ UNCHANGED <<pipe, persist, attempt, failedAt, outcome>>

ReturnOk ==
  /\ pc = "loop"
  /\ cur > NumSteps[pipe]
  /\ pc' = "idle"
  /\ outcome' = "ok"
  /\ UNCHANGED <<pipe, persist, completed, cur, attempt, failedAt, rows, lost>>

-----------------------------------------------------------------------------
(* Failure: the row is marked, then rollback walks down from the step      *)
(* before the failed one.                                                  *)

Fail ==
  /\ pc = "fail"
  /\ FailPipelineStep(cur)
  /\ failedAt' = cur
  /\ cur' = cur - 1
  /\ pc' = "rollback"
  /\ UNCHANGED <<pipe, persist, completed, attempt, outcome>>

\* Mutated form of RollbackSkip: the walk does not stop at the first step.
RollbackPastStart ==
  /\ pc = "rollback"
  /\ cur \notin Undoable[pipe]
  /\ cur' = cur - 1
  /\ UNCHANGED <<pc, pipe, persist, completed, attempt, failedAt, outcome, rows, lost>>

\* Mutated form of RollbackSkip: the walk does not get past a step without Undo.
RollbackStuck ==
  /\ pc = "rollback"
  /\ cur > 0 /\ cur \notin Undoable[pipe]
  /\ UNCHANGED <<cur, pc, pipe, persist, completed, attempt, failedAt, outcome, rows, lost>>

\* A step without Undo stays completed, in memory and in the store.
RollbackSkip ==
  /\ pc = "rollback"
  /\ cur > 0 /\ cur \notin Undoable[pipe]
  /\ cur' = cur - 1
  /\ UNCHANGED <<pc, pipe, persist, completed, attempt, failedAt, outcome, rows, lost>>

\* Undo is called; its error is logged and ignored.
UndoStep ==
  /\ pc = "rollback"
  /\ cur > 0 /\ cur \in Undoable[pipe]
  /\ pc' = "forget"
  /\ UNCHANGED <<pipe, persist, completed, cur, attempt, failedAt, outcome, rows, lost>>

\* Mutated form of Forget: the rows stay.
ForgetInMemory ==
  /\ pc = "forget"
  /\ completed' = completed \ {cur}
  /\ cur' = cur - 1
  /\ pc' = "rollback"
  /\ UNCHANGED <<pipe, persist, attempt, failedAt, outcome, rows, lost>>

Forget ==
  /\ pc = "forget"
  /\ completed' = completed \ {cur}
  /\ DeletePipeline
  /\ cur' = cur - 1
  /\ pc' = "rollback"
  /\ UNCHANGED <<pipe, persist, attempt, failedAt, outcome>>

ReturnErr ==
  /\ pc = "rollback"
  /\ cur = 0
  /\ pc' = "idle"
  /\ outcome' = "err"
  /\ UNCHANGED <<pipe, persist, completed, cur, attempt, failedAt, rows, lost>>

-----------------------------------------------------------------------------
(* The process ends, by itself or by a crash: memory is gone, rows stay.   *)

Terminate ==
  /\ pc' = "down"
  /\ completed' = {}
  /\ persist' = FALSE
  /\ cur' = 0 /\ attempt' = 0 /\ failedAt' = 0
  /\ outcome' = "none"
  /\ UNCHANGED <<pipe, rows, lost>>

Exit == pc = "idle" /\ outcome # "none" /\ Terminate

Crash == "crash" \in Faults /\ pc # "down" /\ Terminate

\* Steps the engine takes on its own, without a call of Do or Undo.
EngineStep ==
  Skip \/ Begin \/ Save \/ ReturnOk \/ Fail \/ RollbackSkip \/ Forget \/ ReturnErr

RowsOK ==
  /\ rows = [p \in Pipelines |-> rows[p]]
  /\ \A p \in Pipelines : rows[p] \in [Steps(p) -> RowStatus]

EngineTypeOK ==
  /\ pc \in {"down", "idle", "loop", "do", "save", "fail", "rollback", "forget"}
  /\ pipe \in Pipelines
  /\ persist \in BOOLEAN
  /\ completed \in SUBSET Steps(pipe)
  /\ cur \in 0 .. NumSteps[pipe] + 1
  /\ attempt \in Nat
  /\ failedAt \in 0 .. NumSteps[pipe]
  /\ outcome \in {"none", "ok", "err"}
  /\ lost \in BOOLEAN
  /\ RowsOK
=============================================================================
