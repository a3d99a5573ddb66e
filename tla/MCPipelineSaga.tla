--------------------------- MODULE MCPipelineSaga ---------------------------
(* An instance of PipelineSaga: one pipeline of four steps, in the shape    *)
(* of the repository's pipelines (a first step that cannot be undone, an    *)
(* undoable step with a retry and another one after it).                    *)
EXTENDS PipelineSaga

MCPipelines == {"p"}
MCNumSteps == [p \in MCPipelines |-> 4]
MCRetry == [p \in MCPipelines |-> <<0, 1, 0, 0>>]
UndoMiddle == [p \in MCPipelines |-> {2, 3}]
=============================================================================
