------------------------------ MODULE RaftTypes ------------------------------
(***************************************************************************)
(* The ordered identifiers openraft is built on: leader ids, votes, log    *)
(* ids and IO ids (openraft/src/vote, log_id, raft_state/io_state).        *)
(*                                                                         *)
(* A vote is flattened to [term, node, committed].  NoNode stands for the  *)
(* None node id of a default leader id.  The index of a log id is one more *)
(* than the index in the code, so that Option<LogId> needs no extra value: *)
(* None is NoLogId, whose index is 0, and next_index() of a log id is its  *)
(* index here.                                                             *)
(***************************************************************************)
EXTENDS Integers, Sequences

CONSTANTS
    Node,       \* the ids of the nodes
    StdLeaderId \* TRUE: leader_id_std, one leader per term;
                \* FALSE: leader_id_adv, leader ids are totally ordered

NoNode == 0

ASSUME NodeAssumption == Node \subseteq Nat \ {NoNode}
ASSUME StdAssumption == StdLeaderId \in BOOLEAN

Vote == [term : Nat, node : Node \cup {NoNode}, committed : BOOLEAN]

\* C::Vote::default(): the vote of a pristine node.
DefaultVote == [term |-> 0, node |-> NoNode, committed |-> FALSE]

NewVote(t, n) == [term |-> t, node |-> n, committed |-> FALSE]

ToCommitted(v) == [term |-> v.term, node |-> v.node, committed |-> TRUE]

ToNonCommitted(v) == [term |-> v.term, node |-> v.node, committed |-> FALSE]

SameLeaderId(a, b) == a.term = b.term /\ a.node = b.node

\* LeaderIdCompare::std and LeaderIdCompare::adv.  Two different nodes of the
\* same term are incomparable in the former.
LeaderIdLt(a, b) ==
    \/ a.term < b.term
    \/ /\ a.term = b.term
       /\ IF StdLeaderId THEN a.node = NoNode /\ b.node # NoNode
                         ELSE a.node < b.node

\* RefVote::partial_cmp: votes of the same or of incomparable leader ids are
\* ordered by their committed flag.
VoteLt(a, b) ==
    \/ LeaderIdLt(a, b)
    \/ ~LeaderIdLt(b, a) /\ ~a.committed /\ b.committed

VoteLeq(a, b) == a = b \/ VoteLt(a, b)

------------------------------------------------------------------------------
LogId == [term : Nat, node : Node \cup {NoNode}, index : Nat]

NoLogId == [term |-> 0, node |-> NoNode, index |-> 0]

\* to_committed_leader_id: the leader id in the log ids a leader assigns.  With
\* leader_id_std it is the term alone.
CommittedLeaderId(v) ==
    [term |-> v.term, node |-> IF StdLeaderId THEN NoNode ELSE v.node]

NewLogId(lid, i) == [term |-> lid.term, node |-> lid.node, index |-> i]

\* CommittedVote/NonCommittedVote::is_same_leader
IsSameLeader(v, id) ==
    CommittedLeaderId(v) = [term |-> id.term, node |-> id.node]

\* Ord of Option<LogId>: committed leader id first, then index; None is least.
LogIdLt(a, b) ==
    \/ a.index = 0 /\ b.index # 0
    \/ /\ a.index # 0 /\ b.index # 0
       /\ \/ a.term < b.term
          \/ a.term = b.term /\ a.node < b.node
          \/ a.term = b.term /\ a.node = b.node /\ a.index < b.index

LogIdLeq(a, b) == a = b \/ LogIdLt(a, b)

MaxLogId(a, b) == IF LogIdLt(a, b) THEN b ELSE a

MinLogId(a, b) == IF LogIdLt(b, a) THEN b ELSE a

------------------------------------------------------------------------------
\* IOId::Vote(vote) is [vote, NoLogId] with a non-committed vote, IOId::Log is
\* [committed vote, last log id].
IOId == [vote : Vote, last : LogId]

NewIOId(v) == [vote |-> v, last |-> NoLogId]

NewLogIOId(v, id) == [vote |-> v, last |-> id]

\* IOId::partial_cmp: the vote first, then the last log id.
IOIdLt(a, b) ==
    \/ VoteLt(a.vote, b.vote)
    \/ a.vote = b.vote /\ LogIdLt(a.last, b.last)

IOIdLeq(a, b) == a = b \/ IOIdLt(a, b)
==============================================================================
