--------------------------- MODULE MCOrchestrator ---------------------------
(***************************************************************************)
(* Instances of Orchestrator for TLC: one contestant that owns every test. *)
(***************************************************************************)
EXTENDS OrchestratorProps, TLC

CONSTANTS c1

MCContestantOf == [t \in Tests |-> c1]

\* Tests and instances are interchangeable: no definition orders them.
MCSymmetry == Permutations(Tests) \cup Permutations(Instances)
=============================================================================
