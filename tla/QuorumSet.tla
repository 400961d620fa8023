------------------------------ MODULE QuorumSet ------------------------------
(***************************************************************************)
(* Majority and joint quorum sets (openraft/src/quorum).                   *)
(*                                                                         *)
(* A joint quorum set is the sequence of voter sets that                   *)
(* Membership::to_quorum_set produces: a single set for a uniform          *)
(* configuration, two sets while a membership change is in progress.       *)
(***************************************************************************)
EXTENDS Naturals, FiniteSets, Sequences

\* BTreeSet::is_quorum: each id of the set counts twice, the total must
\* exceed the size of the set.  The empty set therefore has no quorum.
IsMajority(config, ids) == Cardinality(ids \cap config) * 2 > Cardinality(config)

\* Joint::is_quorum: a quorum of a joint quorum set is a quorum of each child.
IsQuorum(joint, ids) == \A i \in DOMAIN joint : IsMajority(joint[i], ids)

\* Joint::ids: the ids of all children, without duplicates.
QuorumIds(joint) == UNION {joint[i] : i \in DOMAIN joint}
==============================================================================
