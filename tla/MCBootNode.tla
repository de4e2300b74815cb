----------------------------- MODULE MCBootNode -----------------------------
(* Values of the constants for the runs of BootNode.                       *)
EXTENDS BootNode

CONSTANTS long, alien   \* images: of this board's type and of another

\* Three slots over both sectors of the store, and two.
MCSize == [i \in Images |-> IF i = long THEN 2 ELSE 1]

=============================================================================
