------------------------- MODULE MCGenerationSession -------------------------
(* Instances of GenerationSession for TLC. *)
EXTENDS GenerationSession

CONSTANTS summarizer, researcher

\* orchestrator.py starts one thread for each kind.
OneLaneEach == [w \in Worker |-> IF w = summarizer THEN {"summary"} ELSE {"research"}]

\* Two orchestrators overlap: a second thread also claims research.
OverlappingLanes == [w \in Worker |-> IF w = summarizer THEN Kind ELSE {"research"}]
===============================================================================
