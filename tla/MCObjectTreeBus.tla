-------------------------- MODULE MCObjectTreeBus --------------------------
(* ObjectTreeBus with small object trees: the same program on all devices, *)
(* or a master whose def file has a node more than that of the clients.    *)
EXTENDS ObjectTreeBus

CONSTANTS n1, n2, n3

SameNodes == [d \in Device |-> <<n1, n2>>]
NewerMaster == [d \in Device |-> IF d = Master THEN <<n1, n2, n3>> ELSE <<n1, n2>>]
Sizes == [n \in Node |-> IF n = n1 THEN 1 ELSE 4]
=============================================================================
