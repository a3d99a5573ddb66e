------------------------- MODULE PipelineSagaProofs -------------------------
(***************************************************************************)
(* Proofs about the pipeline engine, for pipelines of any length, any      *)
(* choice of undoable steps and retries, and any number of calls; at the   *)
(* end, that it implements the abstract Saga.                              *)
(***************************************************************************)
EXTENDS PipelineSaga, TLAPS

\* Replacing the rows of one pipeline by rows of that pipeline keeps the
\* table well typed.
LEMMA PutRowsOK ==
  ASSUME RowsOK, pipe \in Pipelines,
         NEW r \in [Steps(pipe) -> RowStatus], PutRows(r)
  PROVE  RowsOK'
<1>1. CASE UNCHANGED rows
  BY <1>1 DEF RowsOK, Steps
<1>2. CASE rows' = [rows EXCEPT ![pipe] = r]
  <2>1. rows' = [p \in Pipelines |-> IF p = pipe THEN r ELSE rows[p]]
    BY <1>2 DEF RowsOK
  <2>2. ASSUME NEW p \in Pipelines
        PROVE  rows'[p] \in [Steps(p) -> RowStatus]
    BY <2>1 DEF RowsOK
  <2>3. rows' = [p \in Pipelines |-> rows'[p]]
    BY <2>1
  <2>4. QED
    BY <2>2, <2>3 DEF RowsOK, Steps
<1>3. QED
  BY <1>1, <1>2 DEF PutRows

\* Changing the effect of the current step keeps the world well typed.
LEMMA SetEffectOK ==
  ASSUME EffectOK, pipe \in Pipelines, cur \in Steps(pipe),
         NEW e \in Effect, SetEffect(e)
  PROVE  EffectOK'
<1>1. [effect[pipe] EXCEPT ![cur] = e] \in [Steps(pipe) -> Effect]
  BY DEF EffectOK
<1>2. effect' = [p \in Pipelines |->
                   IF p = pipe THEN [effect[pipe] EXCEPT ![cur] = e] ELSE effect[p]]
  BY Zenon DEF SetEffect, EffectOK
<1>3. ASSUME NEW p \in Pipelines
      PROVE  effect'[p] \in [Steps(p) -> Effect]
  BY <1>1, <1>2 DEF EffectOK
<1>4. effect' = [p \in Pipelines |-> effect'[p]]
  BY <1>2
<1>5. QED
  BY <1>3, <1>4 DEF EffectOK, Steps

-----------------------------------------------------------------------------
(* Type correctness.                                                       *)

\* Each write of the engine to the store keeps the table well typed.
LEMMA StoreWritesOK ==
  ASSUME RowsOK, lost \in BOOLEAN, pipe \in Pipelines, cur \in Steps(pipe),
         StartPipelineStep(cur) \/ SavePipelineStep(cur) \/ FailPipelineStep(cur) \/ DeletePipeline
  PROVE  RowsOK' /\ lost' \in BOOLEAN
<1>1. rows[pipe] \in [Steps(pipe) -> RowStatus]
  BY DEF RowsOK
<1>2. ASSUME StartPipelineStep(cur) PROVE RowsOK'
  <2> DEFINE r == [rows[pipe] EXCEPT ![cur] = IF @ = "absent" THEN "running" ELSE @]
  <2>1. r \in [Steps(pipe) -> RowStatus]
    BY <1>1 DEF RowStatus
  <2>2. PutRows(r)
    BY <1>2 DEF StartPipelineStep
  <2> HIDE DEF r
  <2>3. QED
    BY <2>1, <2>2, PutRowsOK
<1>3. ASSUME SavePipelineStep(cur) PROVE RowsOK'
  <2>1. [rows[pipe] EXCEPT ![cur] = "completed"] \in [Steps(pipe) -> RowStatus]
    BY <1>1 DEF RowStatus
  <2>2. QED
    BY <1>3, <2>1, PutRowsOK DEF SavePipelineStep
<1>4. ASSUME FailPipelineStep(cur) PROVE RowsOK'
  <2>1. [rows[pipe] EXCEPT ![cur] = "failed"] \in [Steps(pipe) -> RowStatus]
    BY <1>1 DEF RowStatus
  <2>2. QED
    BY <1>4, <2>1, PutRowsOK DEF FailPipelineStep
<1>5. ASSUME DeletePipeline PROVE RowsOK'
  <2>1. NoRows(pipe) \in [Steps(pipe) -> RowStatus]
    BY DEF NoRows, RowStatus
  <2>2. QED
    BY <1>5, <2>1, PutRowsOK DEF DeletePipeline
<1>6. lost' = lost \/ lost' = TRUE
  BY DEF StartPipelineStep, SavePipelineStep, FailPipelineStep, DeletePipeline, PutRows
<1>7. lost' \in BOOLEAN
  BY Zenon, <1>6
<1>8. QED
  BY <1>2, <1>3, <1>4, <1>5, <1>7

Inv == TypeOK /\ ControlInv

\* The steps of the loop of Run and of rollback keep Inv.
LEMMA EngineStepInv ==
  ASSUME Inv, EngineStep, UNCHANGED <<effect, forced, torn, calls>>
  PROVE  Inv'
<1> USE PipelineAssumption, MaxCallsAssumption DEF Inv, TypeOK, EngineTypeOK
<1>1. NumSteps[pipe] \in Nat
  OBVIOUS
<1>2. EffectOK'
  BY DEF EffectOK, Steps
<1>3. CASE Skip
  <2>1. RowsOK'
    BY <1>3 DEF Skip, RowsOK, Steps
  <2>2. QED
    BY <1>1, <1>2, <1>3, <2>1 DEF Skip, Steps, ControlInv, RollbackCoversPrefix
<1>4. CASE Begin
  <2>1. RowsOK' /\ lost' \in BOOLEAN
    BY <1>4, StoreWritesOK DEF Begin
  <2>2. QED
    BY <1>1, <1>2, <1>4, <2>1 DEF Begin, Steps, ControlInv, RollbackCoversPrefix
<1>5. CASE Save
  <2>1. RowsOK' /\ lost' \in BOOLEAN
    BY <1>5, StoreWritesOK DEF Save, ControlInv
  <2>2. QED
    BY <1>1, <1>2, <1>5, <2>1 DEF Save, Steps, ControlInv, RollbackCoversPrefix
<1>6. CASE ReturnOk
  <2>1. RowsOK'
    BY <1>6 DEF ReturnOk, RowsOK, Steps
  <2>2. QED
    BY <1>1, <1>2, <1>6, <2>1 DEF ReturnOk, Steps, ControlInv, RollbackCoversPrefix
<1>7. CASE Fail
  <2>1. RowsOK' /\ lost' \in BOOLEAN
    BY <1>7, StoreWritesOK DEF Fail, ControlInv
  <2>2. QED
    BY <1>1, <1>2, <1>7, <2>1 DEF Fail, Steps, ControlInv, RollbackCoversPrefix
<1>8. CASE RollbackSkip
  <2>1. RowsOK'
    BY <1>8 DEF RollbackSkip, RowsOK, Steps
  <2>2. QED
    BY SMTT(30), <1>1, <1>2, <1>8, <2>1 DEF RollbackSkip, Steps, ControlInv, RollbackCoversPrefix
<1>9. CASE Forget
  <2>1. RowsOK' /\ lost' \in BOOLEAN
    BY <1>9, StoreWritesOK DEF Forget, ControlInv, Steps
  <2>2. QED
    BY <1>1, <1>2, <1>9, <2>1 DEF Forget, Steps, ControlInv, RollbackCoversPrefix
<1>10. CASE ReturnErr
  <2>1. RowsOK'
    BY <1>10 DEF ReturnErr, RowsOK, Steps
  <2>2. QED
    BY <1>1, <1>2, <1>10, <2>1 DEF ReturnErr, Steps, ControlInv, RollbackCoversPrefix
<1>11. QED
  BY <1>3, <1>4, <1>5, <1>6, <1>7, <1>8, <1>9, <1>10 DEF EngineStep

\* Starting a process, calling it and losing it keep Inv.
LEMMA CallInv ==
  ASSUME Inv, CallNew \/ CallRun \/ CallRetryFrom \/ CallReset
  PROVE  Inv'
<1> USE PipelineAssumption, MaxCallsAssumption DEF Inv, TypeOK, EngineTypeOK, Call
<1>1. EffectOK' /\ RowsOK'
  BY DEF EffectOK, RowsOK, Steps, CallNew, CallRun, CallRetryFrom, CallReset,
         New, Run, RetryFrom, EnterRun, Reset
<1>2. CASE CallNew
  <2>1. persist' \in BOOLEAN /\ lost' \in BOOLEAN /\ forced' \in BOOLEAN /\ torn' \in BOOLEAN
        /\ pipe' \in Pipelines
    BY Zenon, <1>2 DEF CallNew, New
  <2>2. NumSteps[pipe'] \in Nat
    BY <2>1
  <2>3. completed' \in SUBSET Steps(pipe')
    BY <1>2 DEF CallNew, New, LoadPipelineSteps
  <2>4. TypeOK'
    BY <1>1, <1>2, <2>1, <2>2, <2>3 DEF CallNew, New, Steps
  <2>5. ControlInv'
    BY <1>2 DEF CallNew, New, ControlInv, RollbackCoversPrefix
  <2>6. QED
    BY <2>4, <2>5
<1>3. CASE CallRun
  BY <1>1, <1>3 DEF CallRun, Run, EnterRun, Steps, ControlInv, RollbackCoversPrefix
<1>4. CASE CallRetryFrom
  <2>1. forced' \in BOOLEAN /\ torn' \in BOOLEAN /\ lost' \in BOOLEAN
    BY <1>4 DEF CallRetryFrom, RetryFrom, EnterRun
  <2>2. NumSteps[pipe] \in Nat
    OBVIOUS
  <2>3. PICK s \in Steps(pipe) : RetryFrom(s) /\ Call
    BY <1>4 DEF CallRetryFrom
  <2>4. completed' \in SUBSET Steps(pipe)
    BY <2>3 DEF RetryFrom, EnterRun
  <2>5. TypeOK'
    BY <1>1, <2>1, <2>2, <2>3, <2>4 DEF RetryFrom, EnterRun, Steps
  <2>6. ControlInv'
    BY <2>3 DEF RetryFrom, EnterRun, ControlInv, RollbackCoversPrefix
  <2>7. QED
    BY <2>5, <2>6
<1>5. CASE CallReset
  BY <1>1, <1>5 DEF CallReset, Reset, Steps, ControlInv, RollbackCoversPrefix
<1>6. QED
  BY <1>2, <1>3, <1>4, <1>5

\* The calls of Do and Undo, and the end of the process, keep Inv.
LEMMA WorldInv ==
  ASSUME Inv, DoSucceeds \/ DoFails \/ Undo \/ End \/ Die
  PROVE  Inv'
<1> USE PipelineAssumption, MaxCallsAssumption DEF Inv, TypeOK, EngineTypeOK
<1>1. RowsOK'
  BY DEF RowsOK, Steps, DoSucceeds, DoFails, Undo, End, Die, Attempt, UndoStep,
         Exit, Crash, Terminate
<1>2. EffectOK'
  <2>1. CASE UNCHANGED effect
    BY <2>1 DEF EffectOK, Steps
  <2>2. ASSUME NEW e \in Effect, SetEffect(e), cur \in Steps(pipe)
        PROVE  EffectOK'
    BY <2>2, SetEffectOK
  <2>3. pc = "do" => cur \in Steps(pipe)
    BY DEF ControlInv
  <2>4. UndoStep => cur \in Steps(pipe)
    BY DEF UndoStep, ControlInv, RollbackCoversPrefix, Steps
  <2>5. QED
    BY <2>1, <2>2, <2>3, <2>4 DEF DoSucceeds, DoFails, Undo, End, Die, Attempt, Effect
<1>3. CASE DoSucceeds
  BY <1>1, <1>2, <1>3 DEF DoSucceeds, Attempt, Steps, ControlInv, RollbackCoversPrefix
<1>4. CASE DoFails
  <2>1. /\ pc = "do" /\ pc' \in {"do", "fail"} /\ attempt' \in Nat
        /\ UNCHANGED <<pipe, persist, completed, cur, failedAt, outcome, lost, forced, torn, calls>>
    BY <1>4 DEF DoFails, Attempt
  <2>2. TypeOK'
    BY <1>1, <1>2, <2>1 DEF Steps
  <2>3. ControlInv'
    BY <2>1 DEF ControlInv, RollbackCoversPrefix, Steps
  <2>4. QED
    BY <2>2, <2>3
<1>5. CASE Undo
  BY <1>1, <1>2, <1>5 DEF Undo, UndoStep, Steps, ControlInv, RollbackCoversPrefix
<1>6. CASE End \/ Die
  <2>1. NumSteps[pipe] \in Nat
    OBVIOUS
  <2>2. persist' \in BOOLEAN /\ torn' \in BOOLEAN /\ lost' \in BOOLEAN
    BY Zenon, <1>6 DEF End, Die, Exit, Crash, Terminate
  <2>3. ControlInv'
    BY <1>6 DEF End, Die, Exit, Crash, Terminate, ControlInv, RollbackCoversPrefix
  <2>4. QED
    BY SMTT(30), <1>1, <1>2, <1>6, <2>1, <2>2, <2>3 DEF End, Die, Exit, Crash, Terminate, Steps
<1>7. QED
  BY <1>3, <1>4, <1>5, <1>6

\* Inv is inductive.
LEMMA InvInductive == Spec => []Inv
<1>1. Init => Inv
  <2> SUFFICES ASSUME Init PROVE Inv
    OBVIOUS
  <2> USE PipelineAssumption, MaxCallsAssumption DEF Init, EngineInit
  <2>1. RowsOK
    BY DEF RowsOK, NoRows, RowStatus
  <2>2. EffectOK
    BY DEF EffectOK, Effect
  <2>3. NumSteps[pipe] \in Nat
    OBVIOUS
  <2>4. persist \in BOOLEAN /\ forced \in BOOLEAN /\ torn \in BOOLEAN /\ lost \in BOOLEAN
    BY Zenon
  <2>5. QED
    BY <2>1, <2>2, <2>3, <2>4 DEF Inv, TypeOK, EngineTypeOK, ControlInv, RollbackCoversPrefix, Steps
<1>2. Inv /\ [Next]_vars => Inv'
  <2> SUFFICES ASSUME Inv, [Next]_vars PROVE Inv'
    OBVIOUS
  <2>1. CASE Next
    BY <2>1, EngineStepInv, CallInv, WorldInv DEF Next, Work, Advance
  <2>2. CASE UNCHANGED vars
    <3>1. RowsOK' /\ EffectOK'
      BY <2>2 DEF vars, engineVars, Inv, TypeOK, EngineTypeOK, RowsOK, EffectOK, Steps
    <3>2. ControlInv'
      BY <2>2 DEF vars, engineVars, Inv, ControlInv, RollbackCoversPrefix, Steps
    <3>3. QED
      BY <2>2, <3>1, <3>2 DEF vars, engineVars, Inv, TypeOK, EngineTypeOK, Steps
  <2>3. QED
    BY <2>1, <2>2
<1>3. QED
  BY <1>1, <1>2, PTL DEF Spec

\* Every variable of the engine has its type, whatever fails or crashes.
THEOREM TypeCorrect == Spec => []TypeOK
<1>1. Inv => TypeOK
  BY DEF Inv
<1>2. QED
  BY <1>1, InvInductive, PTL

\* rollback undoes completed steps only, in one downward walk (pipeline.go,
\* rollback), whatever fails or crashes.
THEOREM RollbackSafe == Spec => []RollbackCoversPrefix
<1>1. Inv => RollbackCoversPrefix
  BY DEF Inv, ControlInv
<1>2. QED
  BY <1>1, InvInductive, PTL

-----------------------------------------------------------------------------
(* What the store says, when its writes do not fail.                       *)

SInv == Inv /\ StoreInv

\* A write that does not fail is what the table holds afterwards.
LEMMA PutRowsEffect ==
  ASSUME RowsOK, pipe \in Pipelines, persist, ~lost',
         NEW r, PutRows(r)
  PROVE  rows'[pipe] = r
BY DEF PutRows, RowsOK

\* A downward walk passes the integers one at a time.
LEMMA NextBelow ==
  ASSUME NEW a \in Int, NEW b \in Int, a - 1 < b, a # b
  PROVE  a < b
OBVIOUS

\* The steps of the loop of Run and of rollback keep StoreInv.
LEMMA EngineStepStore ==
  ASSUME SInv, ~lost', EngineStep, UNCHANGED <<effect, forced, torn, calls>>
  PROVE  StoreInv'
<1> USE DEF SInv, Inv, TypeOK, EngineTypeOK
<1>1. pipe' = pipe /\ pipe \in Pipelines /\ pc # "down" /\ pc' # "down" /\ persist /\ persist'
  BY DEF EngineStep, Skip, Begin, Save, ReturnOk, Fail, RollbackSkip, Forget, ReturnErr, StoreInv
<1>2. rows[pipe] \in [Steps(pipe) -> RowStatus]
  BY Zenon DEF RowsOK
<1>3. CASE Skip \/ ReturnOk \/ RollbackSkip \/ ReturnErr
  <2>1. rows' = rows /\ completed' = completed /\ failedAt' = failedAt
    BY <1>3 DEF Skip, ReturnOk, RollbackSkip, ReturnErr
  <2>2. LoadPipelineSteps(pipe)' = LoadPipelineSteps(pipe)
    BY <1>1, <2>1 DEF LoadPipelineSteps, Steps
  <2>3. ASSUME pc' \in {"rollback", "forget"}
        PROVE  RollbackSkip
    BY <1>3, <2>3 DEF Skip, ReturnOk, ReturnErr
  <2>4. ASSUME RollbackSkip, NEW s \in Undoable[pipe], cur' < s, s < failedAt
        PROVE  rows[pipe][s] # "completed"
    <3>1. s \in Int /\ cur \in Int /\ cur # s /\ cur' = cur - 1 /\ pc = "rollback"
      BY SMTT(30), <1>1, <2>4, PipelineAssumption DEF RollbackSkip
    <3>2. cur < s
      BY <2>4, <3>1, NextBelow, Zenon
    <3>3. QED
      BY <2>4, <3>1, <3>2 DEF StoreInv
  <2>5. QED
    BY <1>1, <2>1, <2>2, <2>3, <2>4 DEF StoreInv
<1>4. CASE Begin
  <2>1. rows'[pipe] = [rows[pipe] EXCEPT ![cur] = IF @ = "absent" THEN "running" ELSE @]
    BY <1>1, <1>4, PutRowsEffect DEF Begin, StartPipelineStep
  <2>2. QED
    BY <1>1, <1>2, <1>4, <2>1 DEF Begin, StoreInv, LoadPipelineSteps, Steps
<1>5. CASE Save
  <2>1. rows'[pipe] = [rows[pipe] EXCEPT ![cur] = "completed"]
    BY <1>1, <1>5, PutRowsEffect DEF Save, SavePipelineStep
  <2>2. QED
    BY <1>1, <1>2, <1>5, <2>1 DEF Save, StoreInv, LoadPipelineSteps, Steps
<1>6. CASE Fail
  <2>1. rows'[pipe] = [rows[pipe] EXCEPT ![cur] = "failed"]
    BY <1>1, <1>6, PutRowsEffect DEF Fail, FailPipelineStep
  <2>2. LoadPipelineSteps(pipe)' \subseteq LoadPipelineSteps(pipe)
    BY <1>1, <1>2, <2>1 DEF LoadPipelineSteps, Steps
  <2>3. pc = "fail" /\ cur' = cur - 1 /\ failedAt' = cur /\ completed' = completed
    BY <1>6 DEF Fail
  <2>4. ASSUME NEW s \in Undoable[pipe], cur' < s, s < failedAt'
        PROVE  FALSE
    <3>1. s \in Int /\ cur \in Int
      BY PipelineAssumption DEF Steps
    <3>2. QED
      BY SMTT(30), <2>3, <2>4, <3>1
  <2>5. QED
    BY <1>1, <2>2, <2>3, <2>4 DEF StoreInv
<1>7. CASE Forget
  <2>1. rows'[pipe] = NoRows(pipe)
    BY <1>1, <1>7, PutRowsEffect DEF Forget, DeletePipeline
  <2>2. \A s \in Steps(pipe) : rows'[pipe][s] # "completed"
    BY <2>1 DEF NoRows
  <2>3. LoadPipelineSteps(pipe)' = {}
    BY <1>1, <2>2 DEF LoadPipelineSteps, Steps
  <2>4. cur > 0 /\ cur \in Nat /\ NumSteps[pipe] \in Nat /\ Undoable[pipe] \subseteq Nat
    BY <1>7, PipelineAssumption DEF Forget, ControlInv
  <2>5. ASSUME NEW s \in Undoable[pipe], cur' < s, s < failedAt'
        PROVE  rows'[pipe][s] # "completed"
    BY SMTT(30), <1>7, <2>2, <2>4, <2>5 DEF Forget, Steps
  <2>6. QED
    BY <1>1, <1>7, <2>3, <2>5 DEF Forget, StoreInv
<1>8. QED
  BY <1>3, <1>4, <1>5, <1>6, <1>7 DEF EngineStep

\* Every other step leaves the rows alone and keeps StoreInv.
LEMMA OtherStepStore ==
  ASSUME SInv, ~lost',
         CallNew \/ CallRun \/ CallRetryFrom \/ CallReset \/ DoSucceeds \/ DoFails \/ Undo
           \/ End \/ Die
  PROVE  StoreInv'
<1> USE DEF SInv, StoreInv, LoadPipelineSteps, Steps
<1>1. CASE CallNew
  BY <1>1 DEF CallNew, New
<1>2. CASE CallRun
  BY <1>2 DEF CallRun, Run, EnterRun
<1>3. CASE CallRetryFrom
  BY SMTT(30), <1>3 DEF CallRetryFrom, RetryFrom, EnterRun
<1>4. CASE CallReset
  BY <1>4 DEF CallReset, Reset
<1>5. CASE DoSucceeds \/ DoFails
  BY Zenon, <1>5 DEF DoSucceeds, DoFails, Attempt
<1>6. CASE Undo
  BY <1>6 DEF Undo, UndoStep
<1>7. CASE End \/ Die
  BY <1>7 DEF End, Die, Exit, Crash, Terminate
<1>8. QED
  BY Zenon, <1>1, <1>2, <1>3, <1>4, <1>5, <1>6, <1>7

\* The history variable lost is never reset.
LEMMA LostStays ==
  ASSUME [Next]_vars, ~lost'
  PROVE  ~lost
<1>1. CASE CallNew \/ CallRun \/ CallRetryFrom \/ CallReset
  BY Zenon, <1>1 DEF CallNew, New, CallRun, Run, CallRetryFrom, RetryFrom, EnterRun, CallReset, Reset
<1>2. CASE DoSucceeds \/ DoFails \/ Undo \/ End \/ Die
  BY <1>2 DEF DoSucceeds, DoFails, Attempt, Undo, UndoStep, End, Die, Exit, Crash, Terminate
<1>3. CASE EngineStep
  BY <1>3 DEF EngineStep, Skip, Begin, Save, ReturnOk, Fail, RollbackSkip, Forget, ReturnErr,
              StartPipelineStep, SavePipelineStep, FailPipelineStep, DeletePipeline, PutRows
<1>4. CASE UNCHANGED vars
  BY <1>4 DEF vars, engineVars
<1>5. QED
  BY <1>1, <1>2, <1>3, <1>4 DEF Next, Work, Advance

\* As long as no store operation has failed, SInv holds.
LEMMA StoreInvariant == Spec => [](Inv /\ (~lost => SInv))
<1>1. Init => StoreInv
  BY DEF Init, EngineInit, StoreInv
<1>2. Inv /\ (~lost => StoreInv) /\ [Next]_vars => (~lost => StoreInv)'
  <2> SUFFICES ASSUME Inv, ~lost => StoreInv, [Next]_vars, ~lost' PROVE StoreInv'
    OBVIOUS
  <2>1. SInv
    BY LostStays DEF SInv
  <2>2. CASE Next
    BY <2>1, <2>2, EngineStepStore, OtherStepStore DEF Next, Work, Advance
  <2>3. CASE UNCHANGED vars
    BY <2>1, <2>3 DEF vars, engineVars, StoreInv, LoadPipelineSteps, Steps, SInv
  <2>4. QED
    BY <2>2, <2>3
<1>3. QED
  BY <1>1, <1>2, InvInductive, PTL DEF Spec, SInv

\* Crash recovery never repeats a saved step (pipeline.go, New and Run).
THEOREM SavedStepsKept == Spec => []SavedStepNotRepeated
<1>1. (~lost => SInv) => SavedStepNotRepeated
  BY DEF SInv, Inv, ControlInv, StoreInv, SavedStepNotRepeated, LoadPipelineSteps
<1>2. QED
  BY <1>1, StoreInvariant, PTL

\* The part of FailedRunForgets that is about this object.
ForgottenInMemory ==
  pc = "idle" /\ outcome = "err" =>
    \A s \in Undoable[pipe] : 1 <= s /\ s < failedAt => s \notin completed

\* The part of it that is about the store.
ForgottenInStore ==
  ~lost /\ pc = "idle" /\ outcome = "err" =>
    \A s \in Undoable[pipe] : 1 <= s /\ s < failedAt => rows[pipe][s] # "completed"

\* Returning an error establishes both parts; no other step disturbs them.
LEMMA ForgottenStep ==
  ASSUME Inv, [Next]_vars
  PROVE  /\ ForgottenInMemory => ForgottenInMemory'
         /\ (~lost => StoreInv) /\ ForgottenInStore => ForgottenInStore'
<1> DEFINE Quiet == ~(pc' = "idle" /\ outcome' = "err")
<1>1. CASE ReturnErr
  BY SMTT(30), <1>1, LostStays, PipelineAssumption
     DEF ReturnErr, Inv, TypeOK, EngineTypeOK, ControlInv, RollbackCoversPrefix, StoreInv,
         ForgottenInMemory, ForgottenInStore
<1>2. CASE Quiet
  BY <1>2 DEF ForgottenInMemory, ForgottenInStore
<1>3. CASE CallReset \/ UNCHANGED vars
  BY <1>3, LostStays DEF CallReset, Reset, vars, engineVars, ForgottenInMemory, ForgottenInStore
<1>4. ReturnErr \/ Quiet \/ CallReset \/ UNCHANGED vars
  <2>1. CASE CallNew \/ CallRun \/ CallRetryFrom
    BY <2>1 DEF CallNew, New, CallRun, Run, CallRetryFrom, RetryFrom, EnterRun
  <2>2. CASE DoSucceeds \/ DoFails \/ Undo \/ End \/ Die
    BY Zenon, <2>2 DEF DoSucceeds, DoFails, Attempt, Undo, UndoStep, End, Die, Exit, Crash,
                Terminate, Inv, ControlInv
  <2>3. CASE EngineStep
    BY <2>3 DEF EngineStep, Skip, Begin, Save, ReturnOk, Fail, RollbackSkip, Forget, Inv, ControlInv
  <2>4. QED
    BY <2>1, <2>2, <2>3 DEF Next, Work, Advance
<1>5. QED
  BY <1>1, <1>2, <1>3, <1>4

\* After a failed Run no undoable step before the failed one is taken for
\* completed, by this object or by a later process (pipeline.go, rollback).
THEOREM FailedRunSafe == Spec => []FailedRunForgets
<1>1. Init => ForgottenInMemory /\ ForgottenInStore
  BY DEF Init, EngineInit, ForgottenInMemory, ForgottenInStore
<1>2. Spec => []ForgottenInMemory
  BY <1>1, ForgottenStep, InvInductive, PTL DEF Spec
<1>3. Spec => []ForgottenInStore
  <2>1. Inv /\ (~lost => SInv) => Inv /\ (~lost => StoreInv)
    BY DEF SInv
  <2>2. QED
    BY <1>1, <2>1, ForgottenStep, StoreInvariant, PTL DEF Spec
<1>4. ForgottenInMemory /\ ForgottenInStore => FailedRunForgets
  BY DEF ForgottenInMemory, ForgottenInStore, FailedRunForgets
<1>5. QED
  BY <1>2, <1>3, <1>4, PTL

-----------------------------------------------------------------------------
(* The outside world, when store writes do not fail.                       *)

\* SetEffect changes the effect of the current step and of no other.
LEMMA SetEffectAt ==
  ASSUME TypeOK, cur \in Steps(pipe), NEW e \in Effect, SetEffect(e)
  PROVE  /\ effect'[pipe][cur] = e
         /\ \A p \in Pipelines : \A s \in Steps(p) :
              p # pipe \/ s # cur => effect'[p][s] = effect[p][s]
<1> USE DEF TypeOK, EngineTypeOK
<1>1. effect = [p \in Pipelines |-> effect[p]]
  BY DEF EffectOK
<1>2. effect[pipe] \in [Steps(pipe) -> Effect]
  BY DEF EffectOK
<1>3. effect' = [effect EXCEPT ![pipe] = [effect[pipe] EXCEPT ![cur] = e]]
  BY DEF SetEffect
<1>4. effect'[pipe] = [effect[pipe] EXCEPT ![cur] = e]
  BY <1>1, <1>3
<1>5. \A p \in Pipelines : p # pipe => effect'[p] = effect[p]
  BY <1>1, <1>3
<1>6. QED
  BY <1>2, <1>4, <1>5

\* A write that does not fail changes the rows of this pipeline only.
LEMMA PutRowsOthers ==
  ASSUME RowsOK, NEW r, PutRows(r), NEW p \in Pipelines, p # pipe
  PROVE  rows'[p] = rows[p]
BY DEF PutRows, RowsOK

\* The steps of the loop of Run and of rollback keep EffectInv.
LEMMA EngineStepEffect ==
  ASSUME SInv, EffectInv, ~lost', EngineStep, UNCHANGED <<effect, forced, torn, calls>>
  PROVE  EffectInv'
<1>1. pipe' = pipe /\ pipe \in Pipelines /\ persist /\ RowsOK
  BY DEF EngineStep, Skip, Begin, Save, ReturnOk, Fail, RollbackSkip, Forget, ReturnErr,
         SInv, StoreInv, Inv, TypeOK, EngineTypeOK
<1>2. rows[pipe] \in [Steps(pipe) -> RowStatus] /\ NumSteps[pipe] \in Nat
  BY <1>1, PipelineAssumption DEF RowsOK
<1>3. ControlInv /\ completed \subseteq Steps(pipe) /\ outcome \in {"none", "ok", "err"}
  BY DEF SInv, Inv, TypeOK, EngineTypeOK
<1>4. RowsInEffect /\ MemoryInEffect /\ AllDone
  BY DEF EffectInv
<1>5. pc # "idle" => outcome = "none"
  BY <1>3 DEF ControlInv
<1>6. outcome' # "ok" => AllDone'
  BY DEF AllDone
<1>7. CASE Skip \/ RollbackSkip \/ ReturnErr
  <2>1. rows' = rows /\ completed' = completed /\ outcome' # "ok" /\ pc \in {"loop", "rollback"}
        /\ pc' \notin {"save", "do", "fail", "forget"}
    BY <1>5, <1>7 DEF Skip, RollbackSkip, ReturnErr
  <2>2. RowsInEffect'
    BY <1>1, <1>4, <2>1 DEF RowsInEffect, Steps
  <2>3. MemoryInEffect'
    BY <1>1, <1>4, <2>1 DEF MemoryInEffect
  <2>4. QED
    BY <1>6, <2>1, <2>2, <2>3 DEF EffectInv
<1>8. CASE ReturnOk
  <2>1. Steps(pipe) \subseteq completed
    <3>1. 1 .. cur - 1 \subseteq completed /\ cur > NumSteps[pipe] /\ cur \in Int
      <4>1. pc = "loop" /\ cur > NumSteps[pipe]
        BY <1>8 DEF ReturnOk
      <4>2. cur \in Int
        BY SMTT(30), <1>2 DEF SInv, Inv, TypeOK, EngineTypeOK
      <4>3. 1 .. cur - 1 \subseteq completed
        BY <1>3, <4>1 DEF ControlInv
      <4>4. QED
        BY <4>1, <4>2, <4>3
    <3>2. Steps(pipe) \subseteq 1 .. cur - 1
      BY <1>2, <3>1 DEF Steps
    <3>3. QED
      BY <3>1, <3>2
  <2>2. rows' = rows /\ completed' = completed /\ pc = "loop" /\ pc' = "idle"
    BY <1>8 DEF ReturnOk
  <2>3. RowsInEffect'
    BY <1>1, <1>4, <2>2 DEF RowsInEffect, Steps
  <2>4. MemoryInEffect'
    BY <1>1, <1>4, <2>2 DEF MemoryInEffect
  <2>5. AllDone'
    BY <1>1, <1>4, <2>1, <2>2 DEF AllDone, MemoryInEffect, Steps
  <2>6. QED
    BY <2>3, <2>4, <2>5 DEF EffectInv
<1>9. CASE Begin
  <2>1. rows'[pipe] = [rows[pipe] EXCEPT ![cur] = IF @ = "absent" THEN "running" ELSE @]
    BY <1>1, <1>9, PutRowsEffect DEF Begin, StartPipelineStep
  <2>2. \A p \in Pipelines : p # pipe => rows'[p] = rows[p]
    BY <1>1, <1>9, PutRowsOthers DEF Begin, StartPipelineStep
  <2>3. \A p \in Pipelines : \A s \in Steps(p) :
          rows'[p][s] = "completed" => rows[p][s] = "completed"
    BY <1>2, <2>1, <2>2
  <2>4. completed' = completed /\ outcome' # "ok" /\ pc = "loop" /\ pc' = "do"
    BY <1>5, <1>9 DEF Begin
  <2>5. RowsInEffect'
    BY <1>1, <1>4, <2>3, <2>4 DEF RowsInEffect, Steps
  <2>6. MemoryInEffect'
    BY <1>1, <1>4, <2>4 DEF MemoryInEffect
  <2>7. QED
    BY <1>6, <2>4, <2>5, <2>6 DEF EffectInv
<1>10. CASE Save
  <2>1. rows'[pipe] = [rows[pipe] EXCEPT ![cur] = "completed"]
    BY <1>1, <1>10, PutRowsEffect DEF Save, SavePipelineStep
  <2>2. \A p \in Pipelines : p # pipe => rows'[p] = rows[p]
    BY <1>1, <1>10, PutRowsOthers DEF Save, SavePipelineStep
  <2>3. \A p \in Pipelines : \A s \in Steps(p) :
          rows'[p][s] = "completed" => rows[p][s] = "completed" \/ (p = pipe /\ s = cur)
    BY <1>2, <2>1, <2>2
  <2>4. completed' = completed \cup {cur} /\ outcome' # "ok" /\ pc = "save" /\ pc' = "loop"
    BY <1>5, <1>10 DEF Save
  <2>5. effect[pipe][cur] = "done"
    BY <1>4, <2>4 DEF MemoryInEffect
  <2>6. RowsInEffect'
    BY <1>1, <1>4, <2>3, <2>4, <2>5 DEF RowsInEffect, Steps
  <2>7. MemoryInEffect'
    BY <1>1, <1>4, <2>4, <2>5 DEF MemoryInEffect
  <2>8. QED
    BY <1>6, <2>4, <2>6, <2>7 DEF EffectInv
<1>11. CASE Fail
  <2>1. rows'[pipe] = [rows[pipe] EXCEPT ![cur] = "failed"]
    BY <1>1, <1>11, PutRowsEffect DEF Fail, FailPipelineStep
  <2>2. \A p \in Pipelines : p # pipe => rows'[p] = rows[p]
    BY <1>1, <1>11, PutRowsOthers DEF Fail, FailPipelineStep
  <2>3. \A p \in Pipelines : \A s \in Steps(p) : rows'[p][s] = "completed" =>
          rows[p][s] = "completed" /\ ~(p = pipe /\ s = cur)
    BY <1>2, <2>1, <2>2
  <2>4. completed' = completed /\ outcome' # "ok" /\ pc = "fail" /\ pc' = "rollback"
    BY <1>5, <1>11 DEF Fail
  <2>5. RowsInEffect'
    BY <1>1, <1>4, <2>3, <2>4 DEF RowsInEffect, Steps
  <2>6. MemoryInEffect'
    BY <1>1, <1>4, <2>4 DEF MemoryInEffect
  <2>7. QED
    BY <1>6, <2>4, <2>5, <2>6 DEF EffectInv
<1>12. CASE Forget
  <2>1. rows'[pipe] = NoRows(pipe)
    BY <1>1, <1>12, PutRowsEffect DEF Forget, DeletePipeline
  <2>2. \A p \in Pipelines : p # pipe => rows'[p] = rows[p]
    BY <1>1, <1>12, PutRowsOthers DEF Forget, DeletePipeline
  <2>3. \A s \in Steps(pipe) : rows'[pipe][s] # "completed"
    BY <2>1 DEF NoRows
  <2>4. completed' = completed \ {cur} /\ outcome' # "ok" /\ pc = "forget" /\ pc' = "rollback"
    BY <1>5, <1>12 DEF Forget
  <2>5. RowsInEffect'
    BY <1>1, <1>4, <2>2, <2>3, <2>4 DEF RowsInEffect, Steps
  <2>6. MemoryInEffect'
    BY <1>1, <1>4, <2>4 DEF MemoryInEffect
  <2>7. QED
    BY <1>6, <2>4, <2>5, <2>6 DEF EffectInv
<1>13. QED
  BY Zenon, <1>7, <1>8, <1>9, <1>10, <1>11, <1>12 DEF EngineStep

\* The calls of Do and Undo keep EffectInv.
LEMMA WorldEffect ==
  ASSUME SInv, EffectInv, DoSucceeds \/ DoFails \/ Undo
  PROVE  EffectInv'
<1>1. TypeOK /\ ControlInv /\ completed \subseteq Steps(pipe) /\ pipe \in Pipelines
  BY DEF SInv, Inv, TypeOK, EngineTypeOK
<1>2. RowsInEffect /\ MemoryInEffect
  BY DEF EffectInv
<1>3. cur \in Steps(pipe) /\ outcome' = "none" /\ pipe' = pipe /\ cur' = cur
      /\ completed' = completed /\ rows' = rows
  <2>1. CASE DoSucceeds \/ DoFails
    BY Zenon, <1>1, <2>1 DEF DoSucceeds, DoFails, Attempt, ControlInv
  <2>2. CASE Undo
    <3>1. pc = "rollback" /\ cur \in Nat /\ cur > 0
      BY <1>1, <2>2, PipelineAssumption DEF Undo, UndoStep, TypeOK, EngineTypeOK
    <3>2. cur \in 1 .. cur
      BY <3>1
    <3>3. cur \in Steps(pipe) /\ outcome = "none"
      BY <1>1, <3>1, <3>2 DEF ControlInv, RollbackCoversPrefix, TypeOK, EngineTypeOK
    <3>4. QED
      BY Zenon, <2>2, <3>3 DEF Undo, UndoStep
  <2>3. QED
    BY Zenon, <2>1, <2>2
<1>4. AllDone'
  BY <1>3 DEF AllDone
<1>5. \A p \in Pipelines : \A s \in Steps(p) :
        p # pipe \/ s # cur => effect'[p][s] = effect[p][s]
  <2>1. UNCHANGED effect \/ \E e \in Effect : SetEffect(e)
    BY Zenon DEF DoSucceeds, DoFails, Undo, Effect
  <2>2. QED
    BY <1>1, <1>3, <2>1, SetEffectAt
<1>6. CASE DoSucceeds
  <2>1. effect'[pipe][cur] = "done"
    BY <1>1, <1>3, <1>6, SetEffectAt DEF DoSucceeds, Effect
  <2>2. pc = "do" /\ pc' = "save"
    BY <1>6 DEF DoSucceeds, Attempt
  <2>3. RowsInEffect'
    BY <1>2, <1>3, <1>5, <2>1, <2>2 DEF RowsInEffect, Steps
  <2>4. MemoryInEffect'
    BY ZenonT(40), <1>1, <1>2, <1>3, <1>5, <2>1, <2>2 DEF MemoryInEffect
  <2>5. QED
    BY <1>4, <2>3, <2>4 DEF EffectInv
<1>7. CASE DoFails
  <2>1. pc = "do" /\ pc' \in {"do", "fail"} /\ cur \notin completed
    BY <1>1, <1>7 DEF DoFails, Attempt, ControlInv
  <2>2. RowsInEffect'
    BY <1>2, <1>3, <1>5, <2>1 DEF RowsInEffect, Steps
  <2>3. MemoryInEffect'
    BY <1>1, <1>2, <1>3, <1>5, <2>1 DEF MemoryInEffect
  <2>4. QED
    BY <1>4, <2>2, <2>3 DEF EffectInv
<1>8. CASE Undo
  <2>1. pc = "rollback" /\ pc' = "forget"
    BY <1>8 DEF Undo, UndoStep
  <2>2. RowsInEffect'
    BY <1>2, <1>3, <1>5, <2>1 DEF RowsInEffect, Steps
  <2>3. MemoryInEffect'
    BY Zenon, <1>1, <1>2, <1>3, <1>5, <2>1 DEF MemoryInEffect
  <2>4. QED
    BY <1>4, <2>2, <2>3 DEF EffectInv
<1>9. QED
  BY <1>6, <1>7, <1>8

\* The callers and the end of the process keep EffectInv.
LEMMA CallEffect ==
  ASSUME SInv, EffectInv, ~lost',
         CallNew \/ CallRun \/ CallRetryFrom \/ CallReset \/ End
  PROVE  EffectInv'
<1> USE DEF SInv, Inv, EffectInv, RowsInEffect, MemoryInEffect, AllDone, Steps
<1>1. CASE CallNew
  <2>1. PICK p \in Pipelines : New(p) /\ UNCHANGED effect
    BY Zenon, <1>1 DEF CallNew
  <2>2. pc = "down" /\ pc' = "idle" /\ pipe' = p /\ rows' = rows /\ outcome' = "none"
    BY <2>1 DEF New
  <2>3. \A s \in completed' : s \in Steps(p) /\ rows[p][s] = "completed"
    BY <2>1 DEF New, LoadPipelineSteps
  <2>4. RowsInEffect'
    BY Zenon, <2>1, <2>2
  <2>5. MemoryInEffect'
    BY Zenon, <2>1, <2>2, <2>3
  <2>6. QED
    BY Zenon, <2>2, <2>4, <2>5
<1>2. CASE CallRun
  BY Zenon, <1>2 DEF CallRun, Run, EnterRun
<1>3. CASE CallRetryFrom
  BY Zenon, <1>3 DEF CallRetryFrom, RetryFrom, EnterRun
<1>4. CASE CallReset
  BY Zenon, <1>4 DEF CallReset, Reset
<1>5. CASE End
  BY Zenon, <1>5 DEF End, Exit, Terminate
<1>6. QED
  BY Zenon, <1>1, <1>2, <1>3, <1>4, <1>5

\* A crash keeps EffectInv unless the row of the step in hand is outdated.
LEMMA DieEffect ==
  ASSUME SInv, EffectInv, Die, ~torn'
  PROVE  EffectInv'
<1> USE DEF SInv, Inv
<1>1. pc' = "down" /\ outcome' = "none" /\ completed' = {} /\ pipe' = pipe /\ rows' = rows
  BY DEF Die, Crash, Terminate
<1>2. ~(pc \in {"do", "fail", "forget"} /\ rows[pipe][cur] = "completed")
  BY Zenon DEF Die
<1>3. \A p \in Pipelines : \A s \in Steps(p) :
        rows[p][s] = "completed" => effect'[p][s] = effect[p][s]
  <2>1. CASE UNCHANGED effect
    BY <2>1
  <2>2. CASE pc = "do" /\ SetEffect("partial")
    <3>1. cur \in Steps(pipe)
      BY <2>2 DEF ControlInv
    <3>2. \A p \in Pipelines : \A s \in Steps(p) :
            p # pipe \/ s # cur => effect'[p][s] = effect[p][s]
      BY <2>2, <3>1, SetEffectAt DEF Effect
    <3>3. QED
      BY <1>2, <2>2, <3>2
  <2>3. QED
    BY <2>1, <2>2 DEF Die
<1>4. QED
  BY ZenonT(40), <1>1, <1>2, <1>3 DEF EffectInv, RowsInEffect, MemoryInEffect, AllDone, Steps

\* When Run returns nil the work of every step is in place, also after any
\* sequence of failed runs, rollbacks, RetryFrom, Reset and crashes, as long as
\* the store works and no crash left the row of a step outdated (pipeline.go, Run).
THEOREM SuccessComplete == Spec => []SuccessMeansAllDone
<1> DEFINE Kept == ~lost /\ ~torn => EffectInv
<1>1. Init => Kept
  <2> SUFFICES ASSUME Init PROVE EffectInv
    OBVIOUS
  <2>1. RowsInEffect
    BY DEF Init, EngineInit, RowsInEffect, NoRows
  <2>2. MemoryInEffect /\ AllDone
    BY DEF Init, EngineInit, MemoryInEffect, AllDone
  <2>3. QED
    BY <2>1, <2>2 DEF EffectInv
<1>2. (~lost => SInv) /\ Kept /\ [Next]_vars => Kept'
  <2> SUFFICES ASSUME ~lost => SInv, Kept, [Next]_vars, ~lost', ~torn' PROVE EffectInv'
    OBVIOUS
  <2>1. ~torn
    BY Zenon DEF Next, Work, Advance, CallNew, CallRun, CallRetryFrom, CallReset, DoSucceeds,
           DoFails, Undo, End, Die, vars
  <2>2. SInv /\ EffectInv
    BY <2>1, LostStays
  <2>3. CASE Next
    BY <2>2, <2>3, EngineStepEffect, WorldEffect, CallEffect, DieEffect
       DEF Next, Work, Advance
  <2>4. CASE UNCHANGED vars
    BY <2>2, <2>4 DEF vars, engineVars, EffectInv, RowsInEffect, MemoryInEffect, AllDone, Steps
  <2>5. QED
    BY <2>3, <2>4
<1>3. Kept => SuccessMeansAllDone
  BY DEF EffectInv, SuccessMeansAllDone
<1>4. QED
  BY <1>1, <1>2, <1>3, StoreInvariant, PTL DEF Spec

-----------------------------------------------------------------------------
(* Every step of the engine is a step of the saga or leaves it unchanged.  *)

\* The stage the caller sees, by control state.
LEMMA StageOf ==
  ASSUME TypeOK
  PROVE  /\ Stage = "down" <=> pc = "down"
         /\ Stage = "idle" <=> pc = "idle"
         /\ Stage = "run" <=> pc \in {"loop", "do", "save", "fail"}
         /\ Stage = "undo" <=> pc \in {"rollback", "forget"}
         /\ Stage \in {"down", "idle", "run", "undo"}
BY DEF TypeOK, EngineTypeOK, Stage, Running

\* In the forward loop the current step, if not completed, is the lowest missing.
LEMMA CurIsLowest ==
  ASSUME Inv, pc \in {"loop", "do", "save", "fail"}, cur \in Steps(pipe) \ completed
  PROVE  S!Lowest(cur, S!Missing) /\ cur \in S!Steps(pipe)
<1>1. NumSteps[pipe] \in Nat /\ completed \subseteq Steps(pipe) /\ cur \in Int
  BY PipelineAssumption DEF Inv, TypeOK, EngineTypeOK, Steps
<1>2. 1 .. cur - 1 \subseteq completed
  BY DEF Inv, ControlInv
<1>3. ASSUME NEW t \in Steps(pipe) \ completed PROVE cur <= t
  BY <1>1, <1>2 DEF Steps
<1>4. QED
  BY <1>3 DEF S!Lowest, S!Missing, S!Steps, Steps

\* A step of the loop that calls neither Do nor Undo.
LEMMA LoopSteps ==
  ASSUME Inv, Inv', Skip \/ Begin \/ Save \/ ReturnOk \/ Fail
  PROVE  [S!Next]_(S!vars)
<1> USE DEF S!vars
<1>1. CASE Skip \/ Begin
  <2>1. Stage' = Stage
    BY <1>1 DEF Skip, Begin, Stage, Running
  <2>2. QED
    BY <1>1, <2>1 DEF Skip, Begin
<1>2. CASE Save
  <2>1. Stage = "run" /\ Stage' = "run"
    BY <1>2 DEF Save, Stage, Running
  <2>2. S!Lowest(cur, S!Missing) /\ cur \in S!Steps(pipe)
    BY <1>2, CurIsLowest DEF Save, Inv, ControlInv
  <2>3. S!Complete(cur)
    BY <1>2, <2>1, <2>2 DEF Save, S!Complete
  <2>4. QED
    BY <2>2, <2>3 DEF S!Next
<1>3. CASE ReturnOk
  <2>1. Stage = "run" /\ Stage' = "idle"
    BY <1>3 DEF ReturnOk, Stage, Running
  <2>2. S!Missing = {}
    BY <1>3, PipelineAssumption
       DEF ReturnOk, S!Missing, S!Steps, Steps, Inv, ControlInv, TypeOK, EngineTypeOK
  <2>3. S!Return("ok")
    BY <1>3, <2>1, <2>2 DEF ReturnOk, S!Return
  <2>4. QED
    BY <2>3 DEF S!Next
<1>4. CASE Fail
  <2>1. Stage = "run" /\ Stage' = "undo"
    BY <1>4 DEF Fail, Stage, Running
  <2>2. S!Lowest(cur, S!Missing) /\ cur \in S!Steps(pipe)
    BY <1>4, CurIsLowest DEF Fail, Inv, ControlInv
  <2>3. S!Fail(cur)
    BY <1>4, <2>1, <2>2 DEF Fail, S!Fail
  <2>4. QED
    BY <2>2, <2>3 DEF S!Next
<1>5. QED
  BY <1>1, <1>2, <1>3, <1>4

\* A step of rollback.
LEMMA RollbackSteps ==
  ASSUME Inv, Inv', RollbackSkip \/ UndoStep \/ Forget \/ ReturnErr
  PROVE  [S!Next]_(S!vars)
<1> USE DEF S!vars
<1>1. CASE RollbackSkip \/ UndoStep
  <2>1. Stage' = Stage
    BY <1>1 DEF RollbackSkip, UndoStep, Stage, Running
  <2>2. QED
    BY <1>1, <2>1 DEF RollbackSkip, UndoStep
<1>2. CASE Forget
  <2>1. Stage = "undo" /\ Stage' = "undo"
    BY <1>2 DEF Forget, Stage, Running
  <2>2. cur \in S!ToCompensate /\ cur \in S!Steps(pipe)
    BY <1>2, PipelineAssumption
       DEF Forget, S!ToCompensate, S!Steps, Steps, Inv, ControlInv, RollbackCoversPrefix,
           TypeOK, EngineTypeOK
  <2>3. ASSUME NEW t \in S!ToCompensate PROVE t <= cur
    <3>1. t \in Steps(pipe) /\ t \in Int /\ cur \in Int
      BY PipelineAssumption DEF S!ToCompensate, Inv, TypeOK, EngineTypeOK, Steps
    <3>2. ~(cur < t)
      BY <1>2 DEF Forget, S!ToCompensate, Inv, ControlInv, RollbackCoversPrefix
    <3>3. QED
      BY <3>1, <3>2
  <2>4. S!Compensate(cur)
    BY <1>2, <2>1, <2>2, <2>3 DEF Forget, S!Compensate, S!Highest
  <2>5. QED
    BY <2>2, <2>4 DEF S!Next
<1>3. CASE ReturnErr
  <2>1. Stage = "undo" /\ Stage' = "idle"
    BY <1>3 DEF ReturnErr, Stage, Running
  <2>2. S!ToCompensate = {}
    <3>1. ASSUME NEW t \in S!ToCompensate PROVE FALSE
      <4>1. t \in Steps(pipe) /\ 0 < t
        BY PipelineAssumption DEF S!ToCompensate, Inv, TypeOK, EngineTypeOK, Steps
      <4>2. QED
        BY <1>3, <4>1 DEF ReturnErr, S!ToCompensate, Inv, ControlInv, RollbackCoversPrefix
    <3>2. QED
      BY <3>1
  <2>3. S!Return("err")
    BY <1>3, <2>1, <2>2 DEF ReturnErr, S!Return
  <2>4. QED
    BY <2>3 DEF S!Next
<1>4. QED
  BY <1>1, <1>2, <1>3

\* A call by the owner of the pipeline, and the end of its process.
LEMMA OwnerSteps ==
  ASSUME Inv, Inv', CallNew \/ CallRun \/ CallRetryFrom \/ CallReset \/ End \/ Die
  PROVE  [S!Next]_(S!vars)
<1> USE DEF S!vars
<1>1. NumSteps[pipe] \in Nat /\ completed \subseteq Steps(pipe)
  BY PipelineAssumption DEF Inv, TypeOK, EngineTypeOK
<1>2. CASE CallNew
  <2>1. PICK p \in Pipelines : New(p)
    BY <1>2 DEF CallNew
  <2>2. Stage = "down" /\ Stage' = "idle"
    BY <2>1 DEF New, Stage, Running
  <2>3. completed' \in SUBSET S!Steps(p)
    BY <2>1 DEF New, LoadPipelineSteps, S!Steps, Steps
  <2>4. S!Open(p)
    BY <2>1, <2>2, <2>3 DEF New, S!Open
  <2>5. QED
    BY <2>4 DEF S!Next
<1>3. ASSUME NEW s \in 1 .. NumSteps[pipe] + 1,
             EnterRun(completed \ (s .. NumSteps[pipe]))
      PROVE  S!Next
  <2>1. Stage = "idle" /\ Stage' = "run"
    BY <1>3 DEF EnterRun, Stage, Running
  <2>2. S!Start(s)
    BY <1>3, <2>1 DEF EnterRun, S!Start
  <2>3. QED
    BY <2>2 DEF S!Next
<1>4. CASE CallRun
  <2>1. completed = completed \ (NumSteps[pipe] + 1 .. NumSteps[pipe])
    BY <1>1
  <2>2. EnterRun(completed \ (NumSteps[pipe] + 1 .. NumSteps[pipe]))
    BY <1>4, <2>1 DEF CallRun, Run, EnterRun
  <2>3. QED
    BY <1>1, <1>3, <2>2
<1>5. CASE CallRetryFrom
  <2>1. PICK s \in Steps(pipe) : RetryFrom(s)
    BY <1>5 DEF CallRetryFrom
  <2>2. s \in 1 .. NumSteps[pipe] + 1
    BY <1>1, <2>1 DEF Steps
  <2>3. QED
    BY <1>3, <2>1, <2>2 DEF RetryFrom
<1>6. CASE CallReset
  <2>1. Stage = "idle" /\ Stage' = "idle"
    BY <1>6 DEF CallReset, Reset, Stage, Running
  <2>2. QED
    BY <1>6, <2>1 DEF CallReset, Reset, S!Reset, S!Next
<1>7. CASE End \/ Die
  <2>1. Terminate /\ pc # "down"
    BY <1>7 DEF End, Exit, Die, Crash
  <2>2. Stage # "down" /\ Stage' = "down"
    BY <2>1, StageOf DEF Terminate, Stage, Running, Inv
  <2>3. S!Stop
    BY <2>1, <2>2 DEF Terminate, S!Stop
  <2>4. QED
    BY <2>3 DEF S!Next
<1>8. QED
  BY <1>2, <1>4, <1>5, <1>6, <1>7

\* A call of Do changes nothing the caller can see.
LEMMA DoSteps ==
  ASSUME DoSucceeds \/ DoFails
  PROVE  UNCHANGED S!vars
<1>1. PICK ok \in BOOLEAN : Attempt(ok)
  BY Zenon DEF DoSucceeds, DoFails
<1>2. Stage' = Stage
  BY <1>1 DEF Attempt, Stage, Running
<1>3. QED
  BY <1>1, <1>2 DEF Attempt, S!vars

\* The engine implements the abstract saga, for pipelines of any length, any
\* choice of undoable steps, and any crashes, store errors and calls
\* (pipeline.go, Run, RetryFrom, Reset and rollback).
THEOREM EngineImplementsSaga == Spec => ImplementsSaga
<1>1. Init => S!Init
  BY DEF Init, EngineInit, S!Init, Stage, Running
<1>2. Inv /\ Inv' /\ [Next]_vars => [S!Next]_(S!vars)
  <2> SUFFICES ASSUME Inv, Inv', [Next]_vars PROVE [S!Next]_(S!vars)
    OBVIOUS
  <2>1. CASE UNCHANGED vars
    BY <2>1 DEF vars, engineVars, S!vars, Stage, Running
  <2>2. CASE CallNew \/ CallRun \/ CallRetryFrom \/ CallReset \/ End \/ Die
    BY <2>2, OwnerSteps
  <2>3. CASE DoSucceeds \/ DoFails
    BY <2>3, DoSteps
  <2>4. CASE Undo
    BY <2>4, RollbackSteps DEF Undo
  <2>5. CASE Advance
    BY <2>5, LoopSteps, RollbackSteps DEF Advance, EngineStep
  <2>6. QED
    BY <2>1, <2>2, <2>3, <2>4, <2>5 DEF Next, Work
<1>3. QED
  BY <1>1, <1>2, InvInductive, PTL DEF Spec, ImplementsSaga, S!Spec
=============================================================================
