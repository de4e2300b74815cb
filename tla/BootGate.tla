------------------------------ MODULE BootGate ------------------------------
(***************************************************************************)
(* What a node with a bootloader promises whoever powers, resets and loads *)
(* it: an application runs only whole and only of this board's type, and   *)
(* the image its store keeps changes only through an empty store and only  *)
(* in the bootloader.  BootNode implements it.                             *)
(***************************************************************************)
CONSTANTS
    Shaped,  \* the images of this board's type
    None     \* no image

VARIABLES
    runs,    \* the image whose application runs, None in the bootloader
    kept     \* the image a power-up finds, None where there is none

vars == <<runs, kept>>

Init == runs = None /\ kept \in Shaped \cup {None}

\* The jump.
Start == runs = None /\ runs' \in Shaped /\ UNCHANGED kept

\* A reset, a power loss or the application's own stay.
Stop == runs # None /\ runs' = None /\ UNCHANGED kept

\* A persist that has come to its end.
Keep == runs = None /\ kept = None /\ kept' \in Shaped /\ UNCHANGED runs

\* A persist that begins.
GiveUp == runs = None /\ kept # None /\ kept' = None /\ UNCHANGED runs

Next == Start \/ Stop \/ Keep \/ GiveUp

Spec == Init /\ [][Next]_vars

=============================================================================
