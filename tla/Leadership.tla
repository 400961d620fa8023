----------------------------- MODULE Leadership ------------------------------
(***************************************************************************)
(* What openraft promises about votes, without logs, messages or roles.    *)
(*                                                                         *)
(* A node only ever moves to a vote that is greater or equal, it records   *)
(* which votes it has granted, and a vote becomes committed only when a    *)
(* quorum has granted it.  The cluster specification Raft implements this  *)
(* one; the promises made here are proved in LeadershipProofs.             *)
(***************************************************************************)
EXTENDS RaftTypes, QuorumSet

CONSTANT MaxTerm \* bound on the terms of TLC's instances

ASSUME FiniteNodes == IsFiniteSet(Node)
ASSUME MaxTermAssumption == MaxTerm \in Nat

VARIABLES
    vote,   \* the vote saved by each node
    granted \* the set of <<node, vote>> such that node granted vote

vars == <<vote, granted>>

\* The votes a candidate may ask for: Engine::elect.
Candidacy == [term : 1..MaxTerm, node : Node, committed : {FALSE}]

\* Variant of GrantedByQuorum in which half of the nodes, rounded down, suffice.
GrantedByHalf(v) ==
    Cardinality({n \in Node : <<n, v>> \in granted}) >= Cardinality(Node) \div 2

\* Candidate::grant_by
GrantedByQuorum(v) ==
    \E Q \in SUBSET Node : IsMajority(Node, Q) /\ \A n \in Q : <<n, v>> \in granted

Init ==
    /\ vote = [n \in Node |-> DefaultVote]
    /\ granted = {}

\* A node grants a vote that is not smaller than its own.
Grant(n, v) ==
    /\ VoteLeq(vote[n], v)
    /\ vote' = [vote EXCEPT ![n] = v]
    /\ granted' = granted \cup {<<n, v>>}

\* A node learns a greater vote from a response that rejects its own one.
Adopt(n, v) ==
    /\ VoteLeq(vote[n], v)
    /\ vote' = [vote EXCEPT ![n] = v]
    /\ UNCHANGED granted

\* Variant of Follow in which a single grant is enough.
FollowUnelected(n, v) ==
    /\ \E m \in Node : <<m, v>> \in granted
    /\ VoteLeq(vote[n], ToCommitted(v))
    /\ vote' = [vote EXCEPT ![n] = ToCommitted(v)]
    /\ UNCHANGED granted

\* A candidate becomes leader, or a node hears of an established leader.
Follow(n, v) ==
    /\ GrantedByQuorum(v)
    /\ VoteLeq(vote[n], ToCommitted(v))
    /\ vote' = [vote EXCEPT ![n] = ToCommitted(v)]
    /\ UNCHANGED granted

Next == \E n \in Node, v \in Candidacy : Grant(n, v) \/ Adopt(n, v) \/ Follow(n, v)

Spec == Init /\ [][Next]_vars

------------------------------------------------------------------------------
TypeOK ==
    /\ vote \in [Node -> Vote]
    /\ granted \subseteq Node \X Candidacy

\* The votes of established leaders.
Established == {v \in Candidacy : GrantedByQuorum(v)}

\* Two established leaders never have incomparable leader ids: this is what
\* makes the (true, true) case of RefVote::partial_cmp unreachable, and with
\* leader_id_std there is at most one leader in a term.
LeadersComparable ==
    \A v, w \in Established : v = w \/ LeaderIdLt(v, w) \/ LeaderIdLt(w, v)

\* Every committed vote a node has saved was granted by a quorum.
CommittedIsEstablished ==
    \A n \in Node : vote[n].committed => ToNonCommitted(vote[n]) \in Established

------------------------------------------------------------------------------
\* LeadersComparable is not inductive.  What a node granted is never ahead of
\* its vote, and any two votes it granted are comparable.
GrantsBehindVote == \A g \in granted : VoteLeq(g[2], vote[g[1]])

GrantsComparable ==
    \A g, h \in granted :
        g[1] = h[1] => VoteLeq(g[2], h[2]) \/ VoteLeq(h[2], g[2])

IInv == TypeOK /\ GrantsBehindVote /\ GrantsComparable /\ CommittedIsEstablished
==============================================================================
