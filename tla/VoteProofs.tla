----------------------------- MODULE VoteProofs ------------------------------
(***************************************************************************)
(* What the other proofs need of votes, quorums and numbers.               *)
(***************************************************************************)
EXTENDS RaftTypes, QuorumSet, FiniteSetTheorems, WellFoundedInduction, TLAPS

\* Every set of natural numbers that is not empty has a least element.
LEMMA NatMin ==
    ASSUME NEW T \in SUBSET Nat, T # {}
    PROVE  \E x \in T : \A y \in T : x <= y
  <1>1. PICK x \in T : \A y \in T : <<y, x>> \notin OpToRel(<, Nat)
    BY NatLessThanWellFounded, WFMin
  <1>2. \A y \in T : ~(y < x)
    BY <1>1, Zenon DEF OpToRel
  <1>. QED
    BY <1>2

\* The order of votes is transitive with both leader id implementations, even
\* though it is only partial with leader_id_std (RefVote::partial_cmp).
LEMMA VoteLeqTransitive ==
    ASSUME NEW a \in Vote, NEW b \in Vote, NEW c \in Vote,
           VoteLeq(a, b), VoteLeq(b, c)
    PROVE  VoteLeq(a, c)
  <1>. DEFINE NodeId == Node \cup {NoNode}
  <1>0. NodeId \subseteq Nat
    BY NodeAssumption DEF NoNode
  <1>1. /\ a.term \in Nat /\ b.term \in Nat /\ c.term \in Nat
        /\ a.node \in Nat /\ b.node \in Nat /\ c.node \in Nat
    <2>1. /\ a.term \in Nat /\ b.term \in Nat /\ c.term \in Nat
          /\ a.node \in NodeId /\ b.node \in NodeId /\ c.node \in NodeId
      BY DEF Vote
    <2>. QED
      BY <1>0, <2>1
  <1>2. CASE a = b \/ b = c
    BY <1>2
  <1>3. CASE VoteLt(a, b) /\ VoteLt(b, c)
    <2>1. CASE LeaderIdLt(a, b) /\ LeaderIdLt(b, c)
      BY <1>1, <2>1 DEF VoteLeq, VoteLt, LeaderIdLt
    <2>2. CASE LeaderIdLt(a, b) /\ ~LeaderIdLt(c, b) /\ ~b.committed /\ c.committed
      BY <1>1, <2>2 DEF VoteLeq, VoteLt, LeaderIdLt
    <2>3. CASE ~LeaderIdLt(b, a) /\ ~a.committed /\ b.committed /\ LeaderIdLt(b, c)
      BY <1>1, <2>3 DEF VoteLeq, VoteLt, LeaderIdLt
    <2>. QED
      BY <1>3, <2>1, <2>2, <2>3 DEF VoteLt
  <1>. QED
    BY <1>2, <1>3 DEF VoteLeq

\* No vote is before itself, and no vote is before one that is before it.
LEMMA VoteLtStrict ==
    ASSUME NEW a \in Vote, NEW b \in Vote, VoteLt(a, b)
    PROVE  ~VoteLeq(b, a)
  <1>0. Node \cup {NoNode} \subseteq Nat
    BY NodeAssumption DEF NoNode
  <1>1. a.term \in Nat /\ b.term \in Nat /\ a.node \in Nat /\ b.node \in Nat
    <2>1. /\ a.term \in Nat /\ b.term \in Nat
          /\ a.node \in Node \cup {NoNode} /\ b.node \in Node \cup {NoNode}
      BY DEF Vote
    <2>. QED
      BY <1>0, <2>1
  <1>. QED
    BY <1>1 DEF VoteLeq, VoteLt, LeaderIdLt

\* to_non_committed of a later leader's vote is greater than an earlier leader's.
LEMMA LaterCandidacy ==
    ASSUME NEW a \in Vote, NEW b \in Vote, a.committed, VoteLt(a, b)
    PROVE  ToNonCommitted(b) \in Vote /\ VoteLt(a, ToNonCommitted(b))
  BY DEF VoteLt, LeaderIdLt, ToNonCommitted, Vote

\* Two majorities of the same voters share one of them (BTreeSet::is_quorum),
\* whoever else is among those who agreed.
LEMMA MajoritiesIntersect ==
    ASSUME NEW S, IsFiniteSet(S), NEW A, NEW B, IsMajority(S, A), IsMajority(S, B)
    PROVE  A \cap B \cap S # {}
  <1>. DEFINE X == A \cap S
              Y == B \cap S
  <1>1. X \subseteq S /\ Y \subseteq S /\ X \cap Y = A \cap B \cap S
    OBVIOUS
  <1>2. IsFiniteSet(X) /\ IsFiniteSet(Y)
    BY <1>1, FS_Subset
  <1>3. /\ Cardinality(X) \in Nat /\ Cardinality(Y) \in Nat /\ Cardinality(S) \in Nat
        /\ Cardinality(X \cap Y) \in Nat /\ Cardinality(X \cup Y) \in Nat
    BY <1>2, FS_CardinalityType, FS_Intersection, FS_Union
  <1>4. Cardinality(X \cup Y) <= Cardinality(S)
    BY <1>1, FS_Subset
  <1>5. Cardinality(X \cup Y) = Cardinality(X) + Cardinality(Y) - Cardinality(X \cap Y)
    BY <1>2, FS_Union
  <1>6. Cardinality(X) * 2 > Cardinality(S) /\ Cardinality(Y) * 2 > Cardinality(S)
    BY DEF IsMajority
  <1>7. Cardinality(X \cap Y) # 0
    BY <1>3, <1>4, <1>5, <1>6
  <1>. QED
    BY <1>1, <1>7, FS_EmptySet

\* Joint::is_quorum: quorums of two joint quorum sets that have a config in
\* common share one of its voters.
LEMMA SharedConfigIntersects ==
    ASSUME NEW j, NEW k, NEW a \in DOMAIN j, NEW b \in DOMAIN k, j[a] = k[b], IsFiniteSet(j[a]),
           NEW q, NEW r, IsQuorum(j, q), IsQuorum(k, r)
    PROVE  q \cap r # {}
  <1>1. IsMajority(j[a], q) /\ IsMajority(j[a], r)
    BY DEF IsQuorum
  <1>2. q \cap r \cap j[a] # {}
    BY <1>1, MajoritiesIntersect
  <1>. QED
    BY <1>2

\* BTreeSet::is_quorum: more ids do not take a quorum away.
LEMMA MajorityGrows ==
    ASSUME NEW S, IsFiniteSet(S), NEW A, NEW B, A \cap S \subseteq B, IsMajority(S, A)
    PROVE  IsMajority(S, B)
  <1>1. A \cap S \subseteq B \cap S /\ IsFiniteSet(B \cap S)
    BY FS_Subset
  <1>2. /\ Cardinality(A \cap S) <= Cardinality(B \cap S)
        /\ Cardinality(A \cap S) \in Nat /\ Cardinality(B \cap S) \in Nat
        /\ Cardinality(S) \in Nat
    BY <1>1, FS_Subset, FS_CardinalityType
  <1>. QED
    BY <1>2 DEF IsMajority
==============================================================================
