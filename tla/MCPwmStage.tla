---------------------------- MODULE MCPwmStage ----------------------------
(* PwmStage for TLC: which ops a run's host sends is the run's Ops. *)
EXTENDS PwmStage, TLC

CONSTANTS x, y   \* two triples a host asks for

\* The host's triples are interchangeable.
AnyTriple == Permutations({x, y})
=============================================================================
