---------------------------- MODULE MCDaqEngine ----------------------------
(* Values of the constants for the runs of DaqEngine.                      *)
EXTENDS DaqEngine

Design(boxcar, filters) == [boxcar |-> boxcar, filters |-> filters]

\* A bottom rung and a slower one behind a filter.
MCDesigns == {Design(1, FALSE), Design(2, TRUE)}

=============================================================================
