---------------------------- MODULE MCBootMaster ----------------------------
(* Two nodes whose ids collide down to the last bit; tables that name both, *)
(* one of them, or the wrong board for one.                                 *)
EXTENDS BootMaster

CONSTANTS A, B

MCUids == {<<0, 0>>, <<0, 1>>}
MCTypes == {A, B}
MCBoard == [n \in MCUids |-> IF n = <<0, 1>> THEN B ELSE A]
MCSize == [t \in MCTypes |-> IF t = A THEN 2 ELSE 1]

At(u, t) == [unit |-> u, type |-> t]
One(t) == [n \in {<<0, 0>>} |-> At(1, t)]
Two(t, v) == [n \in MCUids |-> IF n = <<0, 0>> THEN At(1, t) ELSE At(2, v)]
MCTables == {Two(A, A), Two(A, B), One(A)}
=============================================================================
