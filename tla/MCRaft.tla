------------------------------- MODULE MCRaft --------------------------------
(***************************************************************************)
(* Instances of Raft for TLC.                                              *)
(***************************************************************************)
EXTENDS Raft

TwoNodes == 1..2
ThreeNodes == 1..3
OneNode == {1}

\* Every node reaches every other; or nodes 1 and 2 only reach node 3, or
\* nodes 1 and 3 only reach node 2.
FullMesh == {{n, m} : n, m \in Node}
Bridge == {{1, 3}, {2, 3}}
Star == {{1, 2}, {2, 3}}
==============================================================================
