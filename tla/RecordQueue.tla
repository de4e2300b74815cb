---------------------------- MODULE RecordQueue ----------------------------
(***************************************************************************)
(* What an acquisition promises the host that reads it: a queue.  Records  *)
(* come out whole, oldest first, each once; one that finds no place is     *)
(* left out altogether; the queue is only ever emptied as a whole.  The    *)
(* ring of daq/src/daq.c implements it (DaqEngine).                        *)
(***************************************************************************)
EXTENDS Sequences

CONSTANT Record   \* what a closed window may become

VARIABLES
    queue,        \* the records waiting, oldest first
    batch         \* what the read under way has taken

vars == <<queue, batch>>

Init == queue = <<>> /\ batch = <<>>

Push(r) == queue' = Append(queue, r) /\ UNCHANGED batch

\* A task begins, its ring is lent, or its power is lost.
Forget == queue' = <<>> /\ UNCHANGED batch

\* A read is answered with what it took.
Answer == batch' = <<>> /\ UNCHANGED queue

Take ==
    /\ queue # <<>>
    /\ batch' = Append(batch, Head(queue))
    /\ queue' = Tail(queue)

Next == (\E r \in Record : Push(r)) \/ Forget \/ Take \/ Answer

Spec == Init /\ [][Next]_vars

=============================================================================
