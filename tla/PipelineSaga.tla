---------------------------- MODULE PipelineSaga ----------------------------
(***************************************************************************)
(* The pipeline engine together with what its steps do to the outside      *)
(* world: effect[p][s] says whether the work of step s is in place.  A     *)
(* call of Do that fails may leave part of its work behind, an Undo may    *)
(* fail and leave everything, and a process may crash and be started       *)
(* again.  Callers may Run, RetryFrom or Reset a pipeline object as often  *)
(* as they like (bounded by MaxCalls).                                     *)
(***************************************************************************)
EXTENDS Pipeline

CONSTANT MaxCalls  \* bound on calls of New, Run, RetryFrom and Reset

ASSUME MaxCallsAssumption == MaxCalls \in Nat

VARIABLES
  effect,  \* the outside world
  forced,  \* history: RetryFrom or Reset was called on this object
  torn,    \* history: a process died while the row of the step in hand was outdated
  calls    \* calls made so far

vars == <<engineVars, effect, forced, torn, calls>>

Effect == {"none", "partial", "done"}

Init ==
  /\ EngineInit
  /\ effect = [p \in Pipelines |-> [s \in Steps(p) |-> "none"]]
  /\ forced = FALSE /\ torn = FALSE
  /\ calls = 0

Call == calls < MaxCalls /\ calls' = calls + 1

SetEffect(e) == effect' = [effect EXCEPT ![pipe][cur] = e]

CallNew == \E p \in Pipelines : New(p) /\ Call /\ forced' = FALSE /\ UNCHANGED <<effect, torn>>
CallRun == Run /\ Call /\ UNCHANGED <<effect, forced, torn>>
CallRetryFrom ==
  \E s \in Steps(pipe) : RetryFrom(s) /\ Call /\ forced' = TRUE /\ UNCHANGED <<effect, torn>>
CallReset == Reset /\ Call /\ forced' = TRUE /\ UNCHANGED <<effect, torn>>

DoSucceeds == Attempt(TRUE) /\ SetEffect("done") /\ UNCHANGED <<forced, torn, calls>>

DoFails ==
  /\ Attempt(FALSE)
  /\ UNCHANGED effect \/ SetEffect("partial")
  /\ UNCHANGED <<forced, torn, calls>>

Undo ==
  /\ UndoStep
  /\ UNCHANGED effect \/ SetEffect("none")
  /\ UNCHANGED <<forced, torn, calls>>

Advance == EngineStep /\ UNCHANGED <<effect, forced, torn, calls>>

End == Exit /\ UNCHANGED <<effect, forced, torn, calls>>

\* A crash in the middle of Do may leave part of the work.  The rows are behind
\* when it falls between an Undo and DeletePipeline, or while a step that is
\* saved as completed is being done again.
Die ==
  /\ Crash
  /\ UNCHANGED effect \/ (pc = "do" /\ SetEffect("partial"))
  /\ torn' = (torn \/ (pc \in {"do", "fail", "forget"} /\ rows[pipe][cur] = "completed"))
  /\ UNCHANGED <<forced, calls>>

Work == DoSucceeds \/ DoFails \/ Undo \/ Advance

Next == CallNew \/ CallRun \/ CallRetryFrom \/ CallReset \/ Work \/ End \/ Die

Spec == Init /\ [][Next]_vars

\* Run is one goroutine and its Do functions return: while a run is in
\* progress the process keeps taking steps.  Nobody has to call anything.
FairSpec == Spec /\ WF_vars(Work)

-----------------------------------------------------------------------------
EffectOK ==
  /\ effect = [p \in Pipelines |-> effect[p]]
  /\ \A p \in Pipelines : effect[p] \in [Steps(p) -> Effect]

\* Every variable of the engine and of the outside world has its type.
TypeOK ==
  /\ EngineTypeOK
  /\ EffectOK
  /\ forced \in BOOLEAN /\ torn \in BOOLEAN
  /\ calls \in 0 .. MaxCalls

\* rollback undoes only steps that completed, from the step before the failed
\* one downwards, and forgets each undoable step it has passed: at every moment
\* the steps still ahead of it are completed and the undoable ones behind it are
\* not (pipeline.go, rollback).
RollbackCoversPrefix ==
  pc \in {"rollback", "forget"} =>
    /\ 1 .. cur \subseteq completed
    /\ \A s \in Undoable[pipe] : cur < s /\ s < failedAt => s \notin completed

\* When Run has returned an error, no undoable step before the failed one is
\* still taken for completed by this object, nor (unless a store write failed) by
\* any later process that loads the rows.
FailedRunForgets ==
  pc = "idle" /\ outcome = "err" =>
    \A s \in Undoable[pipe] : 1 <= s /\ s < failedAt =>
      /\ s \notin completed
      /\ ~lost => rows[pipe][s] # "completed"

\* Crash recovery never repeats a step whose completion was saved: what the
\* store says is completed, memory says too, so Run skips it; also after a crash
\* at any point.  (Only RetryFrom and Reset may ask for a repetition.)
SavedStepNotRepeated ==
  ~lost /\ ~forced /\ pc = "do" => rows[pipe][cur] # "completed"

AllDone == outcome = "ok" => \A s \in Steps(pipe) : effect[pipe][s] = "done"

\* When Run returns nil, the work of every step of the pipeline is in place,
\* through failed runs, rollbacks, RetryFrom, Reset and crashes; provided no store
\* write failed and no crash fell between a change of the world and of its row.
SuccessMeansAllDone == ~lost /\ ~torn => AllDone

\* Every Run ends: retries are bounded and rollback walks down to step 0.
RunTerminates == []<>~Running

\* What the caller can see of the engine's control state.
Stage ==
  IF ~Running THEN pc ELSE IF pc \in {"rollback", "forget"} THEN "undo" ELSE "run"

S == INSTANCE Saga WITH at <- Stage, done <- completed

\* The engine keeps the promise of a saga through retries, crashes and failing
\* store writes: steps complete in order, success means that none is missing, and
\* a failure compensates every undoable completed step before the failed one, in
\* reverse order, before it is reported (pipeline.go, Run and rollback).
ImplementsSaga == S!Spec

-----------------------------------------------------------------------------
(* Strengthenings that make the invariants above inductive.                *)

\* Where the loop of Run and the walk of rollback stand.
ControlInv ==
  /\ outcome # "none" => pc = "idle"
  /\ pc \in {"loop", "do", "save", "fail"} => cur >= 1 /\ 1 .. cur - 1 \subseteq completed
  /\ pc \in {"do", "save", "fail"} => cur \in Steps(pipe) \ completed
  /\ pc \in {"rollback", "forget"} => cur < failedAt
  /\ pc = "forget" => cur \in Undoable[pipe] /\ cur > 0
  /\ RollbackCoversPrefix

\* What the store says while rollback walks, and after it has returned, as long
\* as no store operation has failed.
StoreInv ==
  /\ pc # "down" => persist
  /\ pc \in {"rollback", "forget"} =>
       \A s \in Undoable[pipe] : cur < s /\ s < failedAt => rows[pipe][s] # "completed"
  /\ ~forced /\ pc # "down" => LoadPipelineSteps(pipe) \subseteq completed

\* What the store calls completed is in effect, except while the very step is
\* being redone or has just been undone.
RowsInEffect ==
  \A p \in Pipelines : \A s \in Steps(p) : rows[p][s] = "completed" =>
    \/ effect[p][s] = "done"
    \/ p = pipe /\ s = cur /\ pc \in {"do", "fail", "forget"}

\* So is what memory calls completed, and the step about to be saved.
MemoryInEffect ==
  /\ \A s \in completed : effect[pipe][s] = "done" \/ (s = cur /\ pc = "forget")
  /\ pc = "save" => effect[pipe][cur] = "done"

EffectInv == RowsInEffect /\ MemoryInEffect /\ AllDone
=============================================================================
