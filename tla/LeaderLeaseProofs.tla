-------------------------- MODULE LeaderLeaseProofs --------------------------
(***************************************************************************)
(* A lease is honoured, for every set of nodes, every lease and timeout,   *)
(* any number of terms and disruptions and both implementations of leader  *)
(* ids.                                                                    *)
(***************************************************************************)
EXTENDS LeaderLeaseSteps

\* A step leaves every vote earned.
LEMMA VotesEarnedKept ==
    ASSUME LeaseTypeOK, VotesEarned, Moves
    PROVE  VotesEarned'
  <1>1. \A g \in Node : node[g].vote \in Vote /\ node'[g].vote \in Vote
    BY DEF LeaseTypeOK, Moves, NodeState
  <1>2. \A n \in Node : node'[n].granted # {} =>
           /\ n \in node'[n].granted /\ node'[n].granted \subseteq Reached(node[n].vote)'
           /\ node'[n].vote.node = n /\ ~node'[n].vote.committed
    <2>. SUFFICES ASSUME NEW n \in Node, node'[n].granted # {}
                  PROVE  /\ n \in node'[n].granted /\ node'[n].granted \subseteq Reached(node[n].vote)'
                         /\ node'[n].vote.node = n /\ ~node'[n].vote.committed
      OBVIOUS
    <2>1. VoteMoves(n)
      BY DEF Moves
    <2>2. CASE node'[n].granted = node[n].granted /\ node'[n].vote = node[n].vote
      <3>. DEFINE v == node[n].vote
      <3>1. /\ n \in node[n].granted /\ node[n].granted \subseteq Reached(v)
            /\ v.node = n /\ ~v.committed
        BY <2>2 DEF VotesEarned
      <3>2. \A k \in Reached(v) : VoteLeq(v, node'[k].vote)
        <4>. SUFFICES ASSUME NEW k \in Node, VoteLeq(v, node[k].vote) PROVE VoteLeq(v, node'[k].vote)
          BY DEF Reached
        <4>1. VoteLeq(node[k].vote, node'[k].vote)
          BY Zenon DEF Moves, VoteMoves
        <4>. QED
          BY <1>1, <4>1, VoteLeqTransitive
      <3>. QED
        BY <2>2, <3>1, <3>2 DEF Reached
    <2>3. CASE /\ n \in node'[n].granted /\ node'[n].vote.node = n /\ ~node'[n].vote.committed
               /\ \A k \in node'[n].granted : k \in Node /\ VoteLeq(node'[n].vote, node'[k].vote)
      BY <2>3 DEF Reached
    <2>. QED
      BY <2>1, <2>2, <2>3 DEF VoteMoves
  <1>3. ASSUME NEW v \in Known'
        PROVE  \/ v \in Known
               \/ v = DefaultVote
               \/ \E g \in Node : v = node'[g].vote /\ v.node = g /\ (v.committed =>
                      IsMajority(Node, {k \in Node : VoteLeq(ToNonCommitted(v), node'[k].vote)}))
    <2>1. ASSUME NEW g \in Node, v = node'[g].vote
          PROVE  \/ v \in Known
                 \/ v.node = g /\ (v.committed =>
                        IsMajority(Node, {k \in Node : VoteLeq(ToNonCommitted(v), node'[k].vote)}))
      BY <2>1 DEF Moves, VoteMoves
    <2>4. ASSUME NEW g \in Node, v = node'[g].lead.vote
          PROVE  v \in Known \/ v = DefaultVote \/ v = node'[g].vote
      BY <2>4 DEF Moves, VoteMoves
    <2>2. CASE v = beat'.vote
      BY <2>2 DEF Moves, MessageMoves, NoBeat
    <2>3. CASE \E msg \in transfers' : v = msg.from
      BY <2>3 DEF Moves, MessageMoves
    <2>. QED
      BY <1>3, <2>1, <2>2, <2>3, <2>4 DEF Known
  <1>4. \A v \in Known' : v.node # NoNode => VoteLeq(v, node'[v.node].vote)
    <2>. SUFFICES ASSUME NEW v \in Known', v.node # NoNode PROVE VoteLeq(v, node'[v.node].vote)
      OBVIOUS
    <2>1. CASE v \in Known
      <3>1. v \in Vote /\ v.node \in Node
        BY <2>1, KnownType DEF Vote
      <3>2. VoteLeq(v, node[v.node].vote)
        BY <2>1 DEF VotesEarned
      <3>3. VoteLeq(node[v.node].vote, node'[v.node].vote)
        BY <3>1, Zenon DEF Moves, VoteMoves
      <3>. QED
        BY <1>1, <3>1, <3>2, <3>3, VoteLeqTransitive
    <2>2. CASE v = DefaultVote
      BY <2>2 DEF DefaultVote
    <2>. QED
      BY <1>3, <2>1, <2>2, Zenon DEF VoteLeq
  <1>5. \A v \in Known' : v.committed => v.node # NoNode
           /\ IsMajority(Node, {k \in Node : VoteLeq(ToNonCommitted(v), node'[k].vote)})
    <2>. SUFFICES ASSUME NEW v \in Known', v.committed
                  PROVE  v.node # NoNode
                         /\ IsMajority(Node, {k \in Node : VoteLeq(ToNonCommitted(v), node'[k].vote)})
      OBVIOUS
    <2>1. CASE v \in Known
      <3>1. v.node # NoNode /\ IsMajority(Node, Reached(ToNonCommitted(v)))
        BY <2>1 DEF VotesEarned
      <3>2. ToNonCommitted(v) \in Vote
        BY <2>1, KnownType, VoteForms
      <3>3. Reached(ToNonCommitted(v)) \subseteq
                {k \in Node : VoteLeq(ToNonCommitted(v), node'[k].vote)}
        <4>. SUFFICES ASSUME NEW k \in Node, VoteLeq(ToNonCommitted(v), node[k].vote)
                      PROVE  VoteLeq(ToNonCommitted(v), node'[k].vote)
          BY DEF Reached
        <4>1. VoteLeq(node[k].vote, node'[k].vote)
          BY Zenon DEF Moves, VoteMoves
        <4>. QED
          BY <1>1, <3>2, <4>1, VoteLeqTransitive
      <3>. QED
        BY <3>1, <3>3, MajorityGrows, VotersFinite
    <2>2. CASE v = DefaultVote
      BY <2>2 DEF DefaultVote
    <2>3. CASE \E g \in Node : v = node'[g].vote /\ v.node = g /\ (v.committed =>
                   IsMajority(Node, {k \in Node : VoteLeq(ToNonCommitted(v), node'[k].vote)}))
      BY <2>3, NodeAssumption
    <2>. QED
      BY <1>3, <2>1, <2>2, <2>3
  <1>6. /\ beat' # NoBeat => beat'.vote.committed /\ beat'.vote.node # beat'.target
        /\ \A msg \in transfers' : msg.from.committed /\ msg.from.node # msg.target
    BY DEF Moves, MessageMoves
  <1>. QED
    BY <1>2, <1>4, <1>5, <1>6 DEF VotesEarned, Reached

\* No leader comes after one whose lease holds before a majority has left it.
LEMMA LaterLeader ==
    ASSUME LeaseTypeOK, VotesEarned, LeaseKept, NEW n \in Node, Holds(n),
           NEW v \in Known, v.committed, VoteLt(node[n].vote, v)
    PROVE  IsMajority(Node, Gone(n))
  <1>. SUFFICES ASSUME ~IsMajority(Node, Gone(n)) PROVE FALSE
    OBVIOUS
  <1>. DEFINE u == ToNonCommitted(v)
  <1>1. node[n].vote \in Vote /\ node[n].vote.committed /\ v \in Vote
    BY KnownType DEF LeaseTypeOK, NodeState, Holds, IsLeader
  <1>2. u \in Vote /\ VoteLt(node[n].vote, u)
    BY <1>1, LaterCandidacy
  <1>3. IsMajority(Node, Reached(u))
    BY DEF VotesEarned
  <1>4. Reached(u) \subseteq Gone(n)
    <2>. SUFFICES ASSUME NEW g \in Node, VoteLeq(u, node[g].vote)
                  PROVE  VoteLt(node[n].vote, node[g].vote) /\ node[n].lead.clock[g] > Lease
      BY DEF Reached, Gone
    <2>1. node[g].vote \in Vote
      BY DEF LeaseTypeOK, NodeState
    <2>2. VoteLeq(node[n].vote, node[g].vote)
      BY <1>1, <1>2, <2>1, VoteLeqTransitive DEF VoteLeq
    <2>3. node[g].vote # node[n].vote
      BY <1>1, <1>2, VoteLtStrict
    <2>4. node[n].lead.clock[g] \in Nat
      BY LeaderClock DEF Holds
    <2>5. ~(node[n].lead.clock[g] <= Lease)
      BY <2>3 DEF LeaseKept
    <2>. QED
      BY <2>2, <2>3, <2>4, <2>5, LeaseAssumption DEF VoteLeq
  <1>. QED
    BY <1>3, <1>4, MajorityGrows, VotersFinite

\* Leader::last_quorum_acked_time: a leader that a majority has left has no
\* acknowledgement of a quorum that is as young as the lease.
LEMMA NoQuorumAcked ==
    ASSUME LeaseTypeOK, NEW n \in Node, IsLeader(node[n], n), IsMajority(Node, Gone(n))
    PROVE  LastQuorumAcked(node[n], n) > Lease
  <1>. DEFINE clock == node[n].lead.clock
              A == {a \in 0..LeaseAge : IsMajority(Node, {n} \cup {m \in Node : clock[m] <= a})}
  <1>1. /\ LeaseAge \in Nat /\ Lease \in Nat
        /\ \A m \in Node : clock[m] \in Nat /\ clock[m] <= LeaseAge
    BY LeaderClock, LeaseAssumption DEF LeaseAge
  <1>2. LeaseAge \in A
    <2>1. Gone(n) \cap Node \subseteq {n} \cup {m \in Node : clock[m] <= LeaseAge}
      BY <1>1 DEF Gone
    <2>2. IsMajority(Node, {n} \cup {m \in Node : clock[m] <= LeaseAge})
      BY <2>1, MajorityGrows, VotersFinite
    <2>. QED
      BY <1>1, <2>2
  <1>3. A \subseteq 0..LeaseAge /\ A \subseteq Nat
    <2>1. A \subseteq 0..LeaseAge
      BY Zenon
    <2>. HIDE DEF A
    <2>. QED
      BY <1>1, <2>1
  <1>4. PICK b \in A : \A y \in A : b <= y
    BY <1>2, <1>3, NatMin, Zenon
  <1>5. LastQuorumAcked(node[n], n) = Min(A)
    BY DEF LastQuorumAcked
  <1>6. Min(A) \in A
    BY <1>4, Zenon DEF Min
  <1>. HIDE DEF A
  <1>7. ASSUME NEW a \in A, a <= Lease PROVE FALSE
    <2>1. IsMajority(Node, {n} \cup {m \in Node : clock[m] <= a}) /\ a \in Nat
      BY <1>3, <1>7, Zenon DEF A
    <2>2. ({n} \cup {m \in Node : clock[m] <= a}) \cap Gone(n) \cap Node # {}
      BY <2>1, MajoritiesIntersect, VotersFinite
    <2>3. PICK g \in Node : g \in Gone(n) /\ (g = n \/ clock[g] <= a)
      BY <2>2
    <2>4. g # n
      BY <2>3, VoteLtStrict DEF Gone, VoteLeq, LeaseTypeOK, NodeState
    <2>5. clock[g] > Lease /\ clock[g] <= a /\ clock[g] \in Nat
      BY <1>1, <2>3, <2>4 DEF Gone
    <2>. QED
      BY <1>1, <1>7, <2>1, <2>5
  <1>8. ~(Min(A) <= Lease)
    BY <1>6, <1>7
  <1>9. Min(A) \in Nat
    BY <1>3, <1>6, Zenon
  <1>. QED
    BY <1>1, <1>5, <1>8, <1>9

\* The lease is honoured wherever the rest of the invariant holds.
LEMMA HonouredWhenKept ==
    ASSUME LeaseTypeOK, VotesEarned, LeaseKept PROVE LeaseHonoured
  <1>. SUFFICES ASSUME NEW n \in Node, Holds(n), NEW m \in Node,
                       IsLeader(node[m], m), VoteLt(node[n].vote, node[m].vote)
                PROVE  LastQuorumAcked(node[n], n) > Lease
    BY DEF LeaseHonoured, Holds, OtherLeader
  <1>1. node[m].vote \in Known /\ node[m].vote.committed
    BY DEF Known, IsLeader
  <1>2. IsMajority(Node, Gone(n))
    BY <1>1, LaterLeader
  <1>. QED
    BY <1>2, NoQuorumAcked DEF Holds

\* A node that has left a leader for good stays away from it.
LEMMA GoneGrows ==
    ASSUME LeaseTypeOK, Moves, NEW n \in Node, Holds(n), Holds(n)', node'[n].vote = node[n].vote,
           \A m \in Node : AckMoves(n, m), IsMajority(Node, Gone(n))
    PROVE  IsMajority(Node, Gone(n)')
  <1>1. Gone(n) \subseteq Gone(n)'
    <2>. SUFFICES ASSUME NEW g \in Node, VoteLt(node[n].vote, node[g].vote),
                         node[n].lead.clock[g] > Lease
                  PROVE  VoteLt(node[n].vote, node'[g].vote) /\ node'[n].lead.clock[g] > Lease
      BY DEF Gone
    <2>1. node[n].vote \in Vote /\ node[g].vote \in Vote /\ node'[g].vote \in Vote
      BY DEF LeaseTypeOK, Moves, NodeState
    <2>2. VoteLeq(node[g].vote, node'[g].vote)
      BY Zenon DEF Moves, VoteMoves
    <2>3. VoteLeq(node[n].vote, node'[g].vote)
      BY <2>1, <2>2, VoteLeqTransitive DEF VoteLeq
    <2>4. node'[g].vote # node[n].vote
      BY <2>1, <2>2, VoteLtStrict
    <2>5. node[n].lead.clock[g] \in Nat
      BY LeaderClock DEF Holds
    <2>6. node'[n].lead.clock[g] \in Nat
      <3>1. LeaseTypeOK' /\ IsLeader(node'[n], n)
        BY DEF Moves, Holds
      <3>2. node'[n].lead \in Leading
        BY <3>1 DEF LeaseTypeOK, LeadOwned
      <3>3. node'[n].lead.clock \in [Node -> 0..LeaseAge]
        BY <3>2 DEF Leading, Clock
      <3>. QED
        BY <3>3
    <2>7. ~(node'[n].lead.clock[g] <= Lease)
      BY <2>4, <2>5, LeaseAssumption DEF AckMoves
    <2>. QED
      BY <2>3, <2>4, <2>6, <2>7, LeaseAssumption DEF VoteLeq
  <1>. QED
    BY <1>1, MajorityGrows, VotersFinite

\* A leader that goes on keeps its lease where a majority has not left it.
LEMMA LeaderGoesOn ==
    ASSUME LeaseTypeOK, VotesEarned, LeaseKept, Moves, NEW n \in Node, Holds(n), Holds(n)',
           node'[n].vote = node[n].vote, \A m \in Node : AckMoves(n, m)
    PROVE  /\ \A m \in Node : node'[n].lead.clock[m] <= Lease =>
                  \/ node'[m].vote = node'[n].vote /\ node'[m].age <= node'[n].lead.clock[m]
                  \/ IsMajority(Node, Gone(n)')
           /\ \A m \in Node \ {n} : node'[m].vote = node'[n].vote =>
                  node'[m].enabled /\ node'[m].lease = Lease
           /\ \A msg \in transfers' : msg.from # node'[n].vote
  <1>. DEFINE v == node[n].vote
              clock == node[n].lead.clock
  <1>1. /\ v.committed /\ v.node = n /\ ~waived' /\ ~Transferred(v)
        /\ \A g \in Node : LeaseMoves(g) /\ VoteMoves(g)
    BY DEF Holds, IsLeader, LeaseKept, Transferred, Moves
  <1>2. ASSUME NEW m \in Node, node'[n].lead.clock[m] <= Lease, ~IsMajority(Node, Gone(n)')
        PROVE  node'[m].vote = v /\ node'[m].age <= node'[n].lead.clock[m]
    <2>1. ~IsMajority(Node, Gone(n))
      BY <1>2, GoneGrows
    <2>. SUFFICES ASSUME ~(node'[m].vote = v /\ node'[m].age <= node'[n].lead.clock[m]) PROVE FALSE
      OBVIOUS
    <2>2. /\ clock[m] <= Lease
          /\ node'[m].vote = node[m].vote =>
                 node'[m].age + clock[m] <= node[m].age + node'[n].lead.clock[m]
      BY <1>2 DEF AckMoves
    <2>3. node[m].vote = v /\ node[m].age <= clock[m]
      BY <2>1, <2>2 DEF LeaseKept
    <2>4. node[m].age \in Int /\ node'[m].age \in Int /\ clock[m] \in Int
      BY LeaderClock DEF LeaseTypeOK, Moves, NodeState, Holds
    <2>5. node'[n].lead.clock[m] \in Int
      <3>1. LeaseTypeOK' /\ IsLeader(node'[n], n)
        BY DEF Moves, Holds
      <3>2. node'[n].lead \in Leading
        BY <3>1 DEF LeaseTypeOK, LeadOwned
      <3>3. node'[n].lead.clock \in [Node -> 0..LeaseAge]
        BY <3>2 DEF Leading, Clock
      <3>. QED
        BY <3>3
    <2>6. node'[m].vote # v
      BY <2>2, <2>3, <2>4, <2>5
    <2>7. m # n
      BY <2>6
    <2>8. node[m].lease = Lease
      BY <2>3, <2>7 DEF LeaseKept
    <2>9. ~(node[m].age > node[m].lease)
      BY <2>2, <2>3, <2>4, <2>8, LeaseAssumption
    <2>10. node'[m].vote \in Known /\ node'[m].vote.committed
      BY <1>1, <2>3, <2>6, <2>7, <2>9 DEF LeaseMoves
    <2>11. VoteLt(v, node'[m].vote)
      BY <1>1, <2>3, <2>6, Zenon DEF VoteMoves, VoteLeq
    <2>. QED
      BY <2>1, <2>10, <2>11, LaterLeader
  <1>3. ASSUME NEW m \in Node \ {n}, node'[m].vote = v
        PROVE  node'[m].enabled /\ node'[m].lease = Lease
    <2>1. CASE node[m].vote = v
      <3>1. node[m].enabled /\ node[m].lease = Lease
        BY <2>1 DEF LeaseKept
      <3>2. \/ node'[m].enabled /\ node'[m].lease = Lease
            \/ node'[m].vote # node[m].vote
        BY <1>1, <2>1, <3>1 DEF LeaseMoves
      <3>. QED
        BY <1>3, <2>1, <3>2
    <2>2. CASE node[m].vote # v
      BY <1>1, <1>3, <2>2 DEF LeaseMoves
    <2>. QED
      BY <2>1, <2>2
  <1>4. ASSUME NEW msg \in transfers' PROVE msg.from # v
    <2>1. CASE msg \in transfers
      BY <2>1 DEF LeaseKept
    <2>2. CASE \E k \in Node : msg.from.node = k /\ node'[k].lead.to # NoNode
      BY <1>1, <2>2 DEF Holds
    <2>. QED
      BY <2>1, <2>2 DEF Moves, MessageMoves
  <1>. QED
    BY <1>2, <1>3, <1>4

\* A leader that was just established has a vote nobody else has seen.
LEMMA LeaderIsNew ==
    ASSUME LeaseTypeOK, VotesEarned, Moves, NEW n \in Node, Holds(n)',
           node[n].vote.node = n, ~node[n].vote.committed,
           node'[n].vote = ToCommitted(node[n].vote),
           \A m \in Node : node'[n].lead.clock[m] = LeaseAge
    PROVE  /\ \A m \in Node : ~(node'[n].lead.clock[m] <= Lease)
           /\ \A m \in Node \ {n} : node'[m].vote # node'[n].vote
           /\ \A msg \in transfers' : msg.from # node'[n].vote
  <1>. DEFINE v == node'[n].vote
  <1>1. v \in Vote /\ node[n].vote \in Vote /\ VoteLt(node[n].vote, v) /\ v.node = n
    <2>1. node[n].vote \in Vote
      BY DEF LeaseTypeOK, NodeState
    <2>2. ToCommitted(node[n].vote) \in Vote /\ VoteLt(node[n].vote, ToCommitted(node[n].vote))
      BY <2>1, VoteForms, Zenon
    <2>. QED
      BY <2>1, <2>2 DEF ToCommitted
  <1>2. v \notin Known
    <2>1. n # NoNode
      BY NodeAssumption
    <2>. QED
      BY <1>1, <2>1, VoteLtStrict DEF VotesEarned
  <1>3. \A m \in Node : ~(node'[n].lead.clock[m] <= Lease)
    BY LeaseAssumption DEF LeaseAge
  <1>4. \A m \in Node \ {n} : node'[m].vote # v
    BY <1>1, <1>2, Zenon DEF Moves, VoteMoves
  <1>5. \A msg \in transfers' : msg.from # v
    BY <1>2 DEF Moves, MessageMoves
  <1>. QED
    BY <1>3, <1>4, <1>5

\* A step leaves the lease of every leader kept.
LEMMA LeaseKeptKept ==
    ASSUME LeaseTypeOK, VotesEarned, LeaseKept, Moves
    PROVE  LeaseKept'
  <1>. SUFFICES ASSUME NEW n \in Node, Holds(n)'
                PROVE  /\ \A m \in Node : node'[n].lead.clock[m] <= Lease =>
                              \/ node'[m].vote = node'[n].vote /\ node'[m].age <= node'[n].lead.clock[m]
                              \/ IsMajority(Node, Gone(n)')
                       /\ \A m \in Node \ {n} : node'[m].vote = node'[n].vote =>
                              node'[m].enabled /\ node'[m].lease = Lease
                       /\ \A msg \in transfers' : msg.from # node'[n].vote
    BY DEF LeaseKept
  <1>1. LeadMoves(n) /\ ~waived' /\ ~waived /\ ~node'[n].lead.refused /\ node'[n].lead.to = NoNode
    BY DEF Moves, Holds
  <1>2. CASE /\ IsLeader(node[n], n) /\ node'[n].vote = node[n].vote
             /\ node[n].lead.to # NoNode => node'[n].lead.to # NoNode
             /\ node[n].lead.refused => node'[n].lead.refused
             /\ \A m \in Node : node'[n].lead.refused \/ AckMoves(n, m)
    BY <1>1, <1>2, LeaderGoesOn DEF Holds
  <1>3. CASE /\ node[n].vote.node = n /\ ~node[n].vote.committed
             /\ node'[n].vote = ToCommitted(node[n].vote)
             /\ \A m \in Node : node'[n].lead.clock[m] = LeaseAge
    BY <1>3, LeaderIsNew
  <1>. QED
    BY <1>1, <1>2, <1>3 DEF LeadMoves

\* A cluster without votes has nothing to honour.
LEMMA LeaseInvInit == LeaseInit => LeaseInv
  <1>. SUFFICES ASSUME LeaseInit PROVE LeaseInv
    OBVIOUS
  <1>1. \A n \in Node : node[n] = Pristine
    BY Zenon DEF LeaseInit
  <1>2. \A n \in Node : /\ node[n] \in NodeState /\ node[n].vote = DefaultVote
                        /\ node[n].granted = {} /\ node[n].lead = NotLeading
    BY <1>1, PristineType, Zenon
  <1>3. ~DefaultVote.committed /\ DefaultVote.node = NoNode
    BY DEF DefaultVote
  <1>4. \A n \in Node : ~IsLeader(node[n], n)
    BY <1>2, <1>3, Zenon DEF IsLeader
  <1>5. LeaseTypeOK
    <2>1. node \in [Node -> NodeState]
      BY <1>2 DEF LeaseInit
    <2>. QED
      <3>1. \A n \in Node : LeadOwned(node[n], n)
        BY <1>2, <1>4, Zenon DEF LeadOwned
      <3>2. disruptions \in 0..MaxDisruptions
        BY LeaseAssumption DEF LeaseInit
      <3>. QED
        BY <2>1, <3>1, <3>2, Zenon DEF LeaseInit, LeaseTypeOK
  <1>6. \A v \in Known : v = DefaultVote
    <2>1. NoBeat.vote = DefaultVote /\ NotLeading.vote = DefaultVote
      BY DEF NoBeat, NotLeading
    <2>. QED
      BY <1>2, <2>1 DEF LeaseInit, Known
  <1>7. VotesEarned
    BY <1>2, <1>3, <1>6 DEF VotesEarned, LeaseInit
  <1>8. LeaseKept
    BY <1>4 DEF LeaseKept, Holds
  <1>. QED
    BY <1>5, <1>7, <1>8, HonouredWhenKept DEF LeaseInv

LEMMA LeaseInvNext == LeaseInv /\ [LeaseNext]_leaseVars => LeaseInv'
  <1>. SUFFICES ASSUME LeaseInv, [LeaseNext]_leaseVars PROVE LeaseInv'
    OBVIOUS
  <1>1. CASE LeaseNext
    <2>1. LeaseTypeOK /\ VotesEarned /\ LeaseKept
      BY DEF LeaseInv
    <2>2. Moves
      BY <1>1, <2>1, NextMoves
    <2>3. LeaseTypeOK' /\ VotesEarned' /\ LeaseKept'
      <3>1. LeaseTypeOK'
        BY <2>2 DEF Moves
      <3>2. VotesEarned'
        BY <2>1, <2>2, VotesEarnedKept
      <3>3. LeaseKept'
        BY <2>1, <2>2, LeaseKeptKept
      <3>. QED
        BY <3>1, <3>2, <3>3
    <2>4. (LeaseTypeOK /\ VotesEarned /\ LeaseKept => LeaseHonoured)'
      BY HonouredWhenKept, PTL
    <2>. QED
      BY <2>3, <2>4 DEF LeaseInv
  <1>2. CASE UNCHANGED leaseVars
    <2>1. node' = node /\ beat' = beat /\ transfers' = transfers /\ waived' = waived
          /\ disruptions' = disruptions
      BY <1>2 DEF leaseVars
    <2>2. LeaseTypeOK'
      BY <2>1 DEF LeaseInv, LeaseTypeOK
    <2>3. VotesEarned'
      <3>1. Known' = Known /\ \A v : Reached(v)' = Reached(v)
        BY <2>1 DEF Known, Reached
      <3>. QED
        BY <2>1, <3>1, Zenon DEF LeaseInv, VotesEarned
    <2>4. LeaseKept'
      BY <2>1, Zenon DEF LeaseInv, LeaseKept, Holds, Gone
    <2>5. LeaseHonoured'
      BY <2>1 DEF LeaseInv, LeaseHonoured, OtherLeader
    <2>. QED
      BY <2>2, <2>3, <2>4, <2>5 DEF LeaseInv
  <1>. QED
    BY <1>1, <1>2

\* Whatever the size of the cluster, the length of the lease and of the timeouts:
\* every vote is earned from a majority, and a lease that a quorum acknowledged is
\* kept (handle_vote_req's lease check, clock_progress, transfer_leader).
THEOREM LeaseInvHolds == LeaseSpec => []LeaseInv
  <1>. QED
    BY LeaseInvInit, LeaseInvNext, PTL DEF LeaseSpec

\* No other leader comes up within the lease of a leader that a quorum has
\* acknowledged, that is not handing over and none of whose heartbeats was
\* answered with a higher vote (docs/protocol/leader_lease.md).
THEOREM LeaseIsHonoured == LeaseSpec => []LeaseHonoured
  <1>1. LeaseInv => LeaseHonoured
    BY DEF LeaseInv
  <1>. QED
    BY <1>1, LeaseInvHolds, PTL
==============================================================================
