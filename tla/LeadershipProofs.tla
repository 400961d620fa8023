-------------------------- MODULE LeadershipProofs ---------------------------
(***************************************************************************)
(* The promises of Leadership for every set of nodes, every bound on the   *)
(* terms and both implementations of leader ids.                           *)
(***************************************************************************)
EXTENDS Leadership, VoteProofs

\* What Engine::elect asks for is a vote that is not committed, and
\* to_committed loses nothing of it.
LEMMA CandidacyIsVote ==
    ASSUME NEW v \in Candidacy
    PROVE  v \in Vote /\ ToCommitted(v) \in Vote /\ ToNonCommitted(ToCommitted(v)) = v
           /\ ~v.committed /\ ToCommitted(v).committed
  <1>1. /\ v = [term |-> v.term, node |-> v.node, committed |-> FALSE]
        /\ v.term \in 1..MaxTerm /\ v.node \in Node
    BY DEF Candidacy
  <1>2. v.term \in Nat
    BY <1>1, MaxTermAssumption
  <1>3. v.committed = FALSE
    BY DEF Candidacy
  <1>4. ToCommitted(v) \in Vote
    BY <1>1, <1>2 DEF Vote, ToCommitted
  <1>5. [term |-> v.term, node |-> v.node, committed |-> FALSE] \in Vote
    BY <1>1, <1>2 DEF Vote
  <1>6. v \in Vote
    BY <1>1, <1>5, Zenon
  <1>7. ToNonCommitted(ToCommitted(v)) = [term |-> v.term, node |-> v.node, committed |-> FALSE]
    BY DEF ToCommitted, ToNonCommitted
  <1>. QED
    BY <1>1, <1>3, <1>4, <1>6, <1>7, Zenon DEF ToCommitted

\* A quorum that has granted a vote keeps having granted it.
LEMMA GrantsGrow ==
    ASSUME TypeOK, granted \subseteq granted', granted' \subseteq Node \X Candidacy,
           NEW v, GrantedByQuorum(v)
    PROVE  GrantedByQuorum(v)'
  BY DEF GrantedByQuorum

\* The initial state satisfies the inductive invariant.
LEMMA InitInv == Init => IInv
  BY NodeAssumption DEF Init, IInv, TypeOK, Vote, DefaultVote, GrantsBehindVote,
     GrantsComparable, CommittedIsEstablished

\* Each move of a node to a vote that is not smaller preserves the invariant.
LEMMA NextInv == IInv /\ [Next]_vars => IInv'
  <1>. SUFFICES ASSUME IInv, [Next]_vars PROVE IInv'
    OBVIOUS
  <1>. USE DEF IInv
  <1>1. ASSUME NEW n \in Node, NEW v \in Candidacy, Grant(n, v)
        PROVE  IInv'
    <2>1. TypeOK'
      BY <1>1, CandidacyIsVote DEF Grant, TypeOK
    <2>2. GrantsBehindVote'
      <3>. SUFFICES ASSUME NEW g \in granted' PROVE VoteLeq(g[2], vote'[g[1]])
        BY DEF GrantsBehindVote
      <3>1. CASE g = <<n, v>>
        BY <1>1, <3>1 DEF Grant, TypeOK, VoteLeq
      <3>2. CASE g \in granted /\ g[1] # n
        BY <1>1, <3>2 DEF Grant, TypeOK, GrantsBehindVote
      <3>3. CASE g \in granted /\ g[1] = n
        <4>1. VoteLeq(g[2], vote[n]) /\ VoteLeq(vote[n], v)
          BY <1>1, <3>3 DEF Grant, GrantsBehindVote
        <4>2. g[2] \in Vote /\ vote[n] \in Vote /\ v \in Vote
          BY <3>3, CandidacyIsVote DEF TypeOK
        <4>3. VoteLeq(g[2], v)
          BY <4>1, <4>2, VoteLeqTransitive
        <4>. QED
          BY <1>1, <3>3, <4>3 DEF Grant, TypeOK
      <3>. QED
        BY <1>1, <3>1, <3>2, <3>3 DEF Grant
    <2>3. GrantsComparable'
      <3>1. ASSUME NEW g \in granted, g[1] = n
            PROVE  VoteLeq(g[2], v)
        <4>1. VoteLeq(g[2], vote[n]) /\ VoteLeq(vote[n], v)
          BY <1>1, <3>1 DEF Grant, GrantsBehindVote
        <4>2. g[2] \in Vote /\ vote[n] \in Vote /\ v \in Vote
          BY <3>1, CandidacyIsVote DEF TypeOK
        <4>. QED
          BY <4>1, <4>2, VoteLeqTransitive
      <3>2. granted' = granted \cup {<<n, v>>}
        BY <1>1 DEF Grant
      <3>. QED
        BY <3>1, <3>2 DEF GrantsComparable, VoteLeq
    <2>4. CommittedIsEstablished'
      <3>. SUFFICES ASSUME NEW m \in Node, vote'[m].committed
                    PROVE  ToNonCommitted(vote'[m]) \in Established'
        BY DEF CommittedIsEstablished
      <3>1. m # n /\ vote'[m] = vote[m]
        BY <1>1, CandidacyIsVote DEF Grant, TypeOK
      <3>2. PICK w \in Established : w = ToNonCommitted(vote[m])
        BY <3>1 DEF CommittedIsEstablished
      <3>3. w \in Candidacy /\ GrantedByQuorum(w)
        BY DEF Established
      <3>4. GrantedByQuorum(w)'
        BY <1>1, <2>1, <3>3, GrantsGrow DEF Grant, TypeOK
      <3>. QED
        BY <3>1, <3>2, <3>3, <3>4 DEF Established
    <2>. QED
      BY <2>1, <2>2, <2>3, <2>4
  <1>2. ASSUME NEW n \in Node, NEW v \in Candidacy, Adopt(n, v) \/ Follow(n, v)
        PROVE  IInv'
    <2>1. PICK w \in Vote : /\ VoteLeq(vote[n], w)
                            /\ vote' = [vote EXCEPT ![n] = w]
                            /\ w.committed => w = ToCommitted(v) /\ GrantedByQuorum(v)
      BY <1>2, CandidacyIsVote DEF Adopt, Follow
    <2>2. granted' = granted
      BY <1>2 DEF Adopt, Follow
    <2>3. TypeOK'
      BY <2>1, <2>2 DEF TypeOK
    <2>4. GrantsBehindVote'
      <3>. SUFFICES ASSUME NEW g \in granted PROVE VoteLeq(g[2], vote'[g[1]])
        BY <2>2 DEF GrantsBehindVote
      <3>1. VoteLeq(g[2], vote[g[1]]) /\ g[1] \in Node /\ g[2] \in Vote /\ vote[g[1]] \in Vote
        BY CandidacyIsVote DEF GrantsBehindVote, TypeOK
      <3>2. CASE g[1] # n
        BY <2>1, <3>1, <3>2 DEF TypeOK
      <3>3. CASE g[1] = n
        <4>1. VoteLeq(g[2], w)
          BY <2>1, <3>1, <3>3, VoteLeqTransitive
        <4>. QED
          BY <2>1, <3>3, <4>1 DEF TypeOK
      <3>. QED
        BY <3>2, <3>3
    <2>5. GrantsComparable'
      BY <2>2 DEF GrantsComparable
    <2>6. CommittedIsEstablished'
      <3>1. Established' = Established
        BY <2>2 DEF Established, GrantedByQuorum
      <3>2. w.committed => ToNonCommitted(w) \in Established
        BY <2>1, CandidacyIsVote DEF Established
      <3>. QED
        BY <2>1, <3>1, <3>2 DEF CommittedIsEstablished, TypeOK
    <2>. QED
      BY <2>3, <2>4, <2>5, <2>6
  <1>3. CASE UNCHANGED vars
    BY <1>3 DEF vars, TypeOK, GrantsBehindVote, GrantsComparable,
       CommittedIsEstablished, Established, GrantedByQuorum
  <1>. QED
    BY <1>1, <1>2, <1>3 DEF Next

\* The inductive invariant holds in every reachable state: types, what a node
\* granted never ahead of its vote, and committed votes backed by a quorum.
THEOREM IInvHolds == Spec => []IInv
  BY InitInv, NextInv, PTL DEF Spec

\* Grants of one node with comparable votes have comparable leader ids.
LEMMA ComparableLeaderIds ==
    ASSUME NEW v \in Candidacy, NEW w \in Candidacy, VoteLeq(v, w)
    PROVE  v = w \/ LeaderIdLt(v, w)
  BY CandidacyIsVote DEF VoteLeq, VoteLt

\* Two quorums that granted share a node, whose grants are comparable.
LEMMA IInvImpliesComparable == IInv => LeadersComparable
  <1>. SUFFICES ASSUME IInv, NEW v \in Established, NEW w \in Established
                PROVE  v = w \/ LeaderIdLt(v, w) \/ LeaderIdLt(w, v)
    BY DEF LeadersComparable
  <1>. PICK A \in SUBSET Node : IsMajority(Node, A) /\ \A n \in A : <<n, v>> \in granted
    BY DEF Established, GrantedByQuorum
  <1>. PICK B \in SUBSET Node : IsMajority(Node, B) /\ \A n \in B : <<n, w>> \in granted
    BY DEF Established, GrantedByQuorum
  <1>1. A \cap B \cap Node # {}
    BY FiniteNodes, MajoritiesIntersect
  <1>2. PICK n \in Node : <<n, v>> \in granted /\ <<n, w>> \in granted
    BY <1>1
  <1>3. VoteLeq(v, w) \/ VoteLeq(w, v)
    BY <1>2 DEF IInv, GrantsComparable
  <1>. QED
    BY <1>3, ComparableLeaderIds DEF Established

\* At most one leader is established per leader id order position: the match
\* arm of RefVote::partial_cmp for two committed incomparable votes is never
\* reached, and leader_id_std has at most one leader per term.
THEOREM LeadersAreComparable == Spec => []LeadersComparable
  BY IInvHolds, IInvImpliesComparable, PTL
==============================================================================
