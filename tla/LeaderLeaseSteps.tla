--------------------------- MODULE LeaderLeaseSteps ---------------------------
(***************************************************************************)
(* What every step of LeaderLease does to the votes, the messages, the     *)
(* leases and the clocks of leaders (Moves), with one lemma per action.    *)
(* LeaderLeaseProofs reasons about Moves alone.                            *)
(***************************************************************************)
EXTENDS LeaderLease, VoteProofs

\* The smaller of two ages.
LEMMA MinOfTwo ==
    ASSUME NEW a \in Nat, NEW b \in Nat
    PROVE  Min({a, b}) \in {a, b} /\ Min({a, b}) <= a /\ Min({a, b}) <= b
  <1>1. \E x \in {a, b} : \A y \in {a, b} : x <= y
    BY NatMin
  <1>. QED
    BY <1>1 DEF Min

\* Time passes at most by one.
LEMMA OlderByOne ==
    ASSUME NEW age \in Nat, NEW cap \in Nat
    PROVE  Older(age, cap) \in 0..cap /\ Older(age, cap) <= age + 1
           /\ (Older(age, cap) < cap => Older(age, cap) = age + 1)
  BY MinOfTwo DEF Older

\* The age of a lease is a number.
LEMMA AgeType == ASSUME NEW x \in NodeState PROVE x.age \in Nat
  BY LeaseAssumption DEF NodeState, ExpiredAge

\* A vote that asks for or has leadership.
LEMMA VoteForms ==
    ASSUME NEW v \in Vote
    PROVE  /\ ToCommitted(v) \in Vote /\ ToCommitted(v).committed
           /\ ToNonCommitted(v) \in Vote /\ ~ToNonCommitted(v).committed
           /\ ~v.committed => VoteLt(v, ToCommitted(v)) /\ ToNonCommitted(ToCommitted(v)) = v
           /\ ToCommitted(v).node = v.node /\ ToNonCommitted(v).node = v.node
           /\ \A n \in Node : NewVote(v.term + 1, n) \in Vote /\ VoteLt(v, NewVote(v.term + 1, n))
  <1>1. v = [term |-> v.term, node |-> v.node, committed |-> v.committed]
        /\ v.term \in Nat /\ v.node \in Node \cup {NoNode} /\ v.committed \in BOOLEAN
    BY DEF Vote
  <1>2. v.node \in Nat
    BY <1>1, NodeAssumption DEF NoNode
  <1>3. ~v.committed => VoteLt(v, ToCommitted(v))
    BY <1>1, <1>2 DEF VoteLt, LeaderIdLt, ToCommitted
  <1>4. ~v.committed => ToNonCommitted(ToCommitted(v)) = v
    BY <1>1 DEF ToCommitted, ToNonCommitted
  <1>5. ToCommitted(v) \in Vote /\ ToNonCommitted(v) \in Vote
    BY <1>1 DEF Vote, ToCommitted, ToNonCommitted
  <1>6. \A n \in Node : NewVote(v.term + 1, n) \in Vote /\ VoteLt(v, NewVote(v.term + 1, n))
    BY <1>1 DEF Vote, NewVote, VoteLt, LeaderIdLt
  <1>. QED
    BY <1>3, <1>4, <1>5, <1>6 DEF ToCommitted, ToNonCommitted

\* What VoteHandler::update_vote leaves in Leased and of the roles of a node.
LEMMA UpdateVoteFacts ==
    ASSUME NEW x \in NodeState, NEW n \in Node, NEW v \in Vote, VoteLeq(x.vote, v)
    PROVE  LET y == UpdateVote(x, n, v)
           IN  /\ y \in NodeState
               /\ y.vote = v /\ y.age = 0
               /\ v # x.vote => y.enabled /\ (v.committed => y.lease = Lease)
               /\ v = x.vote => /\ y.enabled = x.enabled
                                /\ v.committed /\ x.enabled => y.lease = Lease
               /\ v.node = n => y.granted = x.granted /\ y.lead = x.lead
               /\ v.node # n => y.granted = {} /\ y.lead = NotLeading
  <1>. DEFINE lease == IF v.committed THEN Lease ELSE 0
              u == IF VoteLt(x.vote, v) THEN Update(x, lease, v) ELSE Touch(x, lease)
              y == UpdateVote(x, n, v)
  <1>1. lease \in {0, Lease} /\ (v.committed => lease = Lease)
    OBVIOUS
  <1>2. 0 \in 0..(Lease + ExpiredAge)
    BY LeaseAssumption DEF ExpiredAge
  <1>3. CASE VoteLt(x.vote, v)
    <2>1. x.vote # v
      BY <1>3, VoteLtStrict DEF VoteLeq, NodeState
    <2>2. u = [x EXCEPT !.vote = v, !.age = 0, !.lease = lease, !.enabled = TRUE]
      BY <1>3 DEF Update
    <2>. HIDE DEF lease, u
    <2>3. /\ u \in NodeState /\ u.vote = v /\ u.age = 0 /\ u.lease = lease /\ u.enabled
          /\ u.granted = x.granted /\ u.lead = x.lead
      BY <1>1, <1>2, <2>2, Zenon DEF NodeState
    <2>4. y = IF v.node = n THEN u ELSE [u EXCEPT !.lead = NotLeading, !.granted = {}]
      BY DEF UpdateVote, BecomeFollowing, u, lease
    <2>5. CASE v.node = n
      BY <1>1, <2>1, <2>3, <2>4, <2>5
    <2>6. CASE v.node # n
      BY <1>1, <2>1, <2>3, <2>4, <2>6, Zenon DEF NodeState
    <2>. QED
      BY <2>5, <2>6
  <1>4. CASE ~VoteLt(x.vote, v)
    <2>1. x.vote = v
      BY <1>4 DEF VoteLeq
    <2>2. u = [x EXCEPT !.age = 0, !.lease = IF x.enabled THEN lease ELSE x.lease]
      BY <1>4 DEF Touch, NodeState
    <2>. HIDE DEF lease, u
    <2>3. /\ u \in NodeState /\ u.vote = v /\ u.age = 0 /\ (x.enabled => u.lease = lease)
          /\ u.enabled = x.enabled /\ u.granted = x.granted /\ u.lead = x.lead
      BY <1>1, <1>2, <2>1, <2>2, Zenon DEF NodeState
    <2>4. y = IF v.node = n THEN u ELSE [u EXCEPT !.lead = NotLeading, !.granted = {}]
      BY DEF UpdateVote, BecomeFollowing, u, lease
    <2>5. CASE v.node = n
      BY <1>1, <2>1, <2>3, <2>4, <2>5
    <2>6. CASE v.node # n
      BY <1>1, <2>1, <2>3, <2>4, <2>6, Zenon DEF NodeState
    <2>. QED
      BY <2>5, <2>6
  <1>. QED
    BY <1>3, <1>4

------------------------------------------------------------------------------
\* What a step may do, one node at a time.  A node moves on to a vote that is
\* around already, or to one of its own that is a candidacy or won by a majority.
VoteMoves(g) ==
    /\ VoteLeq(node[g].vote, node'[g].vote)
    /\ \/ node'[g].vote \in Known
       \/ /\ node'[g].vote.node = g
          /\ node'[g].vote.committed =>
                 IsMajority(Node, {k \in Node : VoteLeq(ToNonCommitted(node'[g].vote), node'[k].vote)})
    /\ \/ node'[g].granted = {}
       \/ node'[g].granted = node[g].granted /\ node'[g].vote = node[g].vote
       \/ /\ g \in node'[g].granted /\ node'[g].vote.node = g /\ ~node'[g].vote.committed
          /\ \A k \in node'[g].granted : k \in Node /\ VoteLeq(node'[g].vote, node'[k].vote)
    /\ node'[g].lead.vote \in Known \cup {node'[g].vote, DefaultVote}

\* Messages carry votes of leaders.
MessageMoves ==
    /\ beat' # NoBeat =>
           beat'.vote \in Known /\ beat'.vote.committed /\ beat'.vote.node # beat'.target
    /\ \A msg \in transfers' :
           /\ msg.from \in Known /\ msg.from.committed /\ msg.from.node # msg.target
           /\ \/ msg \in transfers
              \/ \E k \in Node : msg.from.node = k /\ node'[k].lead.to # NoNode

\* A transfer message of the leader with this vote is on the way.
Transferred(v) == \E msg \in transfers : msg.from = v

\* A follower leaves its leader when the lease is over, for a leader, or at a
\* transfer; a lease is renewed with its vote and taken from it by a transfer.
LeaseMoves(g) ==
    /\ node'[g].vote # node[g].vote =>
           node'[g].enabled /\ (node'[g].vote.committed => node'[g].lease = Lease)
    /\ node[g].vote.committed /\ node[g].vote.node # g =>
           \/ Transferred(node[g].vote)
           \/ /\ node'[g].vote = node[g].vote
              /\ node[g].enabled /\ node[g].lease = Lease => node'[g].enabled /\ node'[g].lease = Lease
           \/ /\ node'[g].vote # node[g].vote
              /\ node[g].age > node[g].lease \/ (node'[g].vote \in Known /\ node'[g].vote.committed)

\* An acknowledgement gets no younger by itself, and ages no slower than the lease
\* of the vote that was acknowledged.
AckMoves(n, m) ==
    node'[n].lead.clock[m] <= Lease =>
        \/ node'[m].vote = node[n].vote /\ node'[m].age <= node'[n].lead.clock[m]
        \/ /\ node[n].lead.clock[m] <= Lease
           /\ node'[m].vote = node[m].vote =>
                  node'[m].age + node[n].lead.clock[m] <= node[m].age + node'[n].lead.clock[m]

\* A leader goes on, or is new and has no acknowledgement.
LeadMoves(n) ==
    \/ /\ IsLeader(node[n], n) /\ node'[n].vote = node[n].vote
       /\ node[n].lead.to # NoNode => node'[n].lead.to # NoNode
       /\ node[n].lead.refused => node'[n].lead.refused
       /\ \A m \in Node : node'[n].lead.refused \/ AckMoves(n, m)
    \/ /\ node[n].vote.node = n /\ ~node[n].vote.committed
       /\ node'[n].vote = ToCommitted(node[n].vote)
       /\ \A m \in Node : node'[n].lead.clock[m] = LeaseAge

Moves ==
    /\ LeaseTypeOK'
    /\ \A g \in Node : VoteMoves(g)
    /\ MessageMoves
    /\ waived => waived'
    /\ ~waived' => \A g \in Node : LeaseMoves(g) /\ (IsLeader(node'[g], g) => LeadMoves(g))

\* Everything that is around is a vote.
LEMMA KnownType ==
    ASSUME LeaseTypeOK PROVE Known \subseteq Vote
  <1>1. \A g \in Node : node[g].vote \in Vote
    BY DEF LeaseTypeOK, NodeState
  <1>2. beat.vote \in Vote
    <2>1. DefaultVote \in Vote
      BY DEF DefaultVote, Vote
    <2>2. beat \in Event => beat.vote \in Vote
      BY DEF Event
    <2>. QED
      BY <2>1, <2>2 DEF LeaseTypeOK, NoBeat
  <1>3. \A msg \in transfers : msg.from \in Vote
    BY DEF LeaseTypeOK
  <1>4. \A g \in Node : node[g].lead.vote \in Vote
    <2>. TAKE g \in Node
    <2>1. node[g].lead \in Leading \cup {NotLeading}
      BY DEF LeaseTypeOK, NodeState
    <2>2. DefaultVote \in Vote
      BY DEF DefaultVote, Vote
    <2>. QED
      BY <2>1, <2>2 DEF Leading, NotLeading
  <1>. QED
    BY <1>1, <1>2, <1>3, <1>4 DEF Known

\* Leader state is of a committed vote of the node that has it.
LEMMA LeadFacts ==
    ASSUME LeaseTypeOK, NEW n \in Node, node[n].lead # NotLeading
    PROVE  /\ node[n].lead \in Leading
           /\ node[n].lead.vote \in Vote /\ node[n].lead.vote \in Known
           /\ node[n].lead.vote.committed /\ node[n].lead.vote.node = n
           /\ node[n].vote.node = n
           /\ node[n].vote.committed => node[n].lead.vote = node[n].vote
           /\ \A m \in Node : node[n].lead.clock[m] \in Nat /\ node[n].lead.clock[m] <= LeaseAge
  <1>1. LeadOwned(node[n], n)
    BY DEF LeaseTypeOK
  <1>2. node[n].lead \in Leading
    BY <1>1 DEF LeadOwned
  <1>3. node[n].lead.clock \in [Node -> 0..LeaseAge] /\ node[n].lead.vote \in Vote
    BY <1>2 DEF Leading, Clock
  <1>4. LeaseAge \in Nat
    BY LeaseAssumption DEF LeaseAge
  <1>5. node[n].lead.vote \in Known
    BY DEF Known
  <1>. QED
    BY <1>1, <1>2, <1>3, <1>4, <1>5 DEF LeadOwned

\* A leader has a clock for every node, with ages up to the one that is worth nothing.
LEMMA LeaderClock ==
    ASSUME LeaseTypeOK, NEW n \in Node, IsLeader(node[n], n)
    PROVE  /\ node[n].lead \in Leading /\ node[n].lead # NotLeading
           /\ node[n].lead.vote = node[n].vote
           /\ \A m \in Node : node[n].lead.clock[m] \in Nat /\ node[n].lead.clock[m] <= LeaseAge
  <1>0. LeadOwned(node[n], n)
    BY DEF LeaseTypeOK
  <1>1. node[n].lead \in Leading /\ node[n].lead # NotLeading /\ node[n].lead.vote = node[n].vote
    <2>1. ~NotLeading.vote.committed
      BY DEF NotLeading, DefaultVote
    <2>. QED
      BY <1>0, <2>1 DEF LeadOwned, IsLeader
  <1>2. node[n].lead.clock \in [Node -> 0..LeaseAge]
    BY <1>1 DEF Leading, Clock
  <1>3. LeaseAge \in Nat
    BY LeaseAssumption DEF LeaseAge
  <1>. QED
    BY <1>1, <1>2, <1>3

------------------------------------------------------------------------------
\* What all steps but those of the clock, of a restart and of a new leader do to a
\* node: it has grown no older, and if it leads then it did before.
Moved(g) ==
    /\ node'[g] \in NodeState
    /\ LeadOwned(node'[g], g)
    /\ VoteMoves(g) /\ LeaseMoves(g)
    /\ node'[g].vote = node[g].vote => node'[g].age <= node[g].age

\* The same where leases are ignored.
Legal(g) ==
    /\ node'[g] \in NodeState
    /\ LeadOwned(node'[g], g)
    /\ VoteMoves(g)

LeadsOn(g) ==
    IsLeader(node'[g], g) => node'[g].vote = node[g].vote /\ node'[g].lead = node[g].lead

\* A node that takes no part in a step.
LEMMA NotInvolved ==
    ASSUME LeaseTypeOK, NEW g \in Node, node'[g] = node[g]
    PROVE  Moved(g) /\ LeadsOn(g)
  <1>1. node[g] \in NodeState /\ LeadOwned(node[g], g)
    BY DEF LeaseTypeOK
  <1>2. node[g].age \in Int
    BY <1>1 DEF NodeState
  <1>3. node[g].vote \in Known /\ node[g].lead.vote \in Known
    BY DEF Known
  <1>. QED
    BY <1>1, <1>2, <1>3 DEF Moved, LeadsOn, VoteMoves, LeaseMoves, VoteLeq

\* A vote of a node that is around and not smaller than the node's is the node's.
LEMMA OwnVote ==
    ASSUME LeaseTypeOK, VotesEarned, NEW g \in Node, NEW v \in Known, v.node = g,
           VoteLeq(node[g].vote, v)
    PROVE  v = node[g].vote
  <1>1. v \in Vote /\ node[g].vote \in Vote
    BY KnownType DEF LeaseTypeOK, NodeState
  <1>2. VoteLeq(v, node[g].vote)
    BY NodeAssumption DEF VotesEarned
  <1>. QED
    BY <1>1, <1>2, VoteLtStrict DEF VoteLeq

\* A node accepts a vote that is around: of a leader, or because its own is not
\* leased any more.
LEMMA Accepts ==
    ASSUME LeaseTypeOK, VotesEarned, NEW g \in Node, NEW v \in Known, VoteLeq(node[g].vote, v),
           NEW x \in NodeState, x.vote = node[g].vote, x.enabled = node[g].enabled,
           x.granted = node[g].granted, x.lead = node[g].lead,
           node'[g] = UpdateVote(x, g, v),
           node[g].vote.committed /\ node[g].vote.node # g =>
               v.committed \/ node[g].age > node[g].lease
    PROVE  Moved(g) /\ LeadsOn(g) /\ node'[g].vote = v /\ node'[g].age = 0
  <1>. DEFINE y == node'[g]
  <1>1. v \in Vote
    BY KnownType
  <1>2. /\ y \in NodeState
        /\ y.vote = v /\ y.age = 0
        /\ v # x.vote => y.enabled /\ (v.committed => y.lease = Lease)
        /\ v = x.vote => /\ y.enabled = x.enabled
                         /\ v.committed /\ x.enabled => y.lease = Lease
        /\ v.node = g => y.granted = x.granted /\ y.lead = x.lead
        /\ v.node # g => y.granted = {} /\ y.lead = NotLeading
    BY <1>1, UpdateVoteFacts
  <1>. HIDE DEF y
  <1>3. v.node = g => v = node[g].vote
    BY OwnVote
  <1>4. LeadOwned(y, g)
    <2>1. LeadOwned(node[g], g)
      BY DEF LeaseTypeOK
    <2>. QED
      BY <1>2, <1>3, <2>1 DEF IsLeader, LeadOwned
  <1>5. VoteMoves(g)
    <2>1. y.lead.vote \in Known \cup {DefaultVote}
      BY <1>2 DEF Known, NotLeading
    <2>. QED
      BY <1>2, <1>3, <2>1 DEF VoteMoves, y
  <1>6. LeaseMoves(g)
    BY <1>2 DEF LeaseMoves, y
  <1>7. node[g].age \in Nat
    BY LeaseAssumption DEF LeaseTypeOK, NodeState, ExpiredAge
  <1>. QED
    BY <1>2, <1>3, <1>4, <1>5, <1>6, <1>7 DEF Moved, LeadsOn, IsLeader, y

\* A node asks for votes; leases are honoured where the one of its vote is over or
\* was given up.
LEMMA Elects ==
    ASSUME LeaseTypeOK, NEW g \in Node,
           NEW x \in NodeState, x.vote = node[g].vote, x.lead = node[g].lead,
           node'[g] = Elect(x, g)
    PROVE  /\ Legal(g) /\ LeadsOn(g)
           /\ (node[g].vote.committed => node[g].age > node[g].lease \/ Transferred(node[g].vote))
                  => Moved(g)
  <1>. DEFINE y == node'[g]
              v == NewVote(x.vote.term + 1, g)
              z == [x EXCEPT !.granted = {g}]
  <1>1. x.vote \in Vote
    BY DEF NodeState
  <1>2. v \in Vote /\ VoteLt(x.vote, v) /\ v.node = g /\ v.committed = FALSE
    BY <1>1, VoteForms, Zenon DEF NewVote
  <1>3. z \in NodeState /\ z.vote = x.vote /\ z.granted = {g} /\ z.lead = x.lead
    BY DEF NodeState
  <1>4. y = UpdateVote(z, g, v)
    BY DEF Elect
  <1>. HIDE DEF y, v, z
  <1>5. y \in NodeState /\ y.vote = v /\ (v # z.vote => y.enabled) /\ y.granted = {g} /\ y.lead = x.lead
    BY <1>2, <1>3, <1>4, UpdateVoteFacts DEF VoteLeq
  <1>6. v # x.vote
    BY <1>1, <1>2, VoteLtStrict DEF VoteLeq
  <1>7. ~IsLeader(y, g) /\ LeadOwned(y, g)
    <2>1. ~IsLeader(y, g)
      BY <1>2, <1>5 DEF IsLeader
    <2>2. CASE x.lead = NotLeading
      BY <1>5, <2>1, <2>2 DEF LeadOwned
    <2>3. CASE x.lead # NotLeading
      <3>1. /\ x.lead \in Leading /\ x.lead.vote \in Vote /\ x.lead.vote.committed
            /\ x.lead.vote.node = g
        BY <2>3, LeadFacts
      <3>2. VoteLeq(x.lead.vote, x.vote)
        BY <2>3 DEF LeaseTypeOK, LeadOwned
      <3>3. VoteLeq(x.lead.vote, v)
        BY <1>1, <1>2, <3>1, <3>2, VoteLeqTransitive DEF VoteLeq
      <3>. QED
        BY <1>2, <1>5, <2>1, <3>1, <3>3 DEF LeadOwned
    <2>. QED
      BY <2>1, <2>2, <2>3
  <1>8. VoteMoves(g)
    <2>1. y.lead.vote \in Known
      BY <1>5 DEF Known
    <2>. QED
      BY <1>2, <1>5, <2>1 DEF VoteMoves, VoteLeq, y
  <1>9. (node[g].vote.committed => node[g].age > node[g].lease \/ Transferred(node[g].vote))
            => LeaseMoves(g)
    BY <1>2, <1>3, <1>5, <1>6 DEF LeaseMoves, y
  <1>. QED
    BY <1>2, <1>5, <1>6, <1>7, <1>8, <1>9 DEF Moved, Legal, LeadsOn, y

\* A leader whose own state is left alone, while nobody ages.
LEMMA LeaderWaits ==
    ASSUME LeaseTypeOK, NEW n \in Node, \A g \in Node : Moved(g), LeadsOn(n), IsLeader(node'[n], n)
    PROVE  LeadMoves(n)
  <1>1. IsLeader(node[n], n) /\ node'[n].vote = node[n].vote /\ node'[n].lead = node[n].lead
    BY DEF LeadsOn, IsLeader
  <1>2. ASSUME NEW m \in Node PROVE AckMoves(n, m)
    <2>1. node[m].age \in Int /\ node'[m].age \in Int
      BY DEF LeaseTypeOK, NodeState, Moved
    <2>2. node[n].lead.clock[m] \in Nat
      BY <1>1, LeaderClock
    <2>. QED
      BY <1>1, <2>1, <2>2 DEF AckMoves, Moved
  <1>. QED
    BY <1>1, <1>2 DEF LeadMoves

\* Messages that are delivered or stay carry nothing new.
LEMMA MessagesStay ==
    ASSUME LeaseTypeOK, VotesEarned, beat' = beat \/ beat' = NoBeat, transfers' \subseteq transfers
    PROVE  /\ MessageMoves
           /\ beat' \in Event \cup {NoBeat} /\ transfers' \subseteq [from : Vote, to : Node, target : Node]
  BY DEF LeaseTypeOK, VotesEarned, MessageMoves, Known

\* A step is as good as what it does to each node.
LEMMA NodesMoved ==
    ASSUME LeaseTypeOK, VotesEarned, DOMAIN node' = Node, node' = [g \in Node |-> node'[g]],
           \A g \in Node : Moved(g) /\ (IsLeader(node'[g], g) => LeadMoves(g)),
           beat' = beat \/ beat' = NoBeat, transfers' \subseteq transfers,
           waived' = waived, disruptions' = disruptions
    PROVE  Moves
  <1>1. /\ MessageMoves
        /\ beat' \in Event \cup {NoBeat} /\ transfers' \subseteq [from : Vote, to : Node, target : Node]
    BY MessagesStay
  <1>2. node' \in [Node -> NodeState]
    BY DEF Moved
  <1>3. LeaseTypeOK'
    BY <1>1, <1>2 DEF LeaseTypeOK, Moved
  <1>. QED
    BY <1>1, <1>3 DEF Moves, Moved

\* RaftCore::handle_tick_election
LEMMA TickElectionMoves ==
    ASSUME LeaseTypeOK, VotesEarned, NEW n \in Node, TickElection(n)
    PROVE  Moves
  <1>. DEFINE x == [node[n] EXCEPT !.greater = FALSE]
  <1>1. node[n] \in NodeState
    BY DEF LeaseTypeOK
  <1>2. x \in NodeState /\ x.vote = node[n].vote /\ x.lead = node[n].lead
    BY <1>1, Zenon DEF NodeState
  <1>3. node' = [node EXCEPT ![n] = Elect(x, n)] /\ ~IsLeader(node[n], n) /\ ElectionDue(node[n])
    BY DEF TickElection
  <1>. HIDE DEF x
  <1>4. node[n].age > node[n].lease
    BY <1>1, <1>3, LeaseAssumption DEF ElectionDue, IsExpired, NodeState, ExpiredAge
  <1>5. /\ node' = [g \in Node |-> node'[g]] /\ DOMAIN node' = Node
        /\ node'[n] = Elect(x, n) /\ \A g \in Node \ {n} : node'[g] = node[g]
    BY <1>3, Zenon DEF LeaseTypeOK
  <1>6. Moved(n) /\ LeadsOn(n)
    BY <1>2, <1>3, <1>4, <1>5, Elects
  <1>7. \A g \in Node : Moved(g) /\ LeadsOn(g)
    BY <1>5, <1>6, NotInvolved
  <1>8. \A g \in Node : IsLeader(node'[g], g) => LeadMoves(g)
    BY <1>7, LeaderWaits
  <1>. QED
    BY <1>5, <1>7, <1>8, NodesMoved, Zenon DEF TickElection

\* Engine::handle_vote_req: the vote asked for is accepted only when the lease of a
\* leader's vote is over.
LEMMA HandlesVoteReq ==
    ASSUME LeaseTypeOK, VotesEarned, NEW m \in Node, NEW v \in Known, NEW behind \in BOOLEAN,
           node'[m] = HandleVoteReq(node[m], m, v, behind).state
    PROVE  Moved(m) /\ LeadsOn(m) /\ node'[m].vote \in {node[m].vote, v}
  <1>. DEFINE x == node[m]
  <1>1. CASE (x.vote.committed /\ ~IsExpired(x, 0)) \/ behind \/ ~VoteLeq(x.vote, v)
    <2>1. node'[m] = node[m]
      BY <1>1 DEF HandleVoteReq, TryUpdateVote
    <2>. QED
      BY <2>1, NotInvolved
  <1>2. CASE ~((x.vote.committed /\ ~IsExpired(x, 0)) \/ behind) /\ VoteLeq(x.vote, v)
    <2>1. node'[m] = UpdateVote(x, m, v)
      BY <1>2 DEF HandleVoteReq, TryUpdateVote
    <2>2. x \in NodeState
      BY DEF LeaseTypeOK
    <2>3. x.vote.committed => x.age > x.lease
      BY <1>2, <2>2, LeaseAssumption DEF IsExpired, NodeState, ExpiredAge
    <2>. QED
      BY <1>2, <2>1, <2>2, <2>3, Accepts
  <1>. QED
    BY <1>1, <1>2

\* Leader::new has heard of nobody.
LEMMA NewLeaderClock ==
    ASSUME NEW v \in Vote
    PROVE  /\ NewLeader(v) \in Leading /\ NewLeader(v).vote = v
           /\ \A k \in Node : NewLeader(v).clock[k] = LeaseAge
  BY LeaseAssumption DEF NewLeader, Leading, Clock, LeaseAge

\* Engine::establish_leader
LEMMA EstablishFacts ==
    ASSUME NEW y \in NodeState, NEW n \in Node, y.vote.node = n, ~y.vote.committed
    PROVE  LET z == EstablishLeader(y, n)
           IN  /\ z \in NodeState /\ z.vote = ToCommitted(y.vote)
               /\ z.lead = NewLeader(ToCommitted(y.vote))
               /\ z.granted = {} /\ z.enabled /\ z.lease = Lease
  <1>. DEFINE w == ToCommitted(y.vote)
              z == UpdateVote(y, n, w)
  <1>1. y.vote \in Vote
    BY DEF NodeState
  <1>2. w \in Vote /\ w.committed /\ VoteLt(y.vote, w)
    BY <1>1, VoteForms, Zenon
  <1>3. w # y.vote /\ VoteLeq(y.vote, w)
    BY <1>2 DEF VoteLeq
  <1>. HIDE DEF w
  <1>4. /\ z \in NodeState /\ z.vote = w
        /\ w # y.vote => z.enabled /\ (w.committed => z.lease = Lease)
    BY <1>2, <1>3, UpdateVoteFacts
  <1>. HIDE DEF z
  <1>5. EstablishLeader(y, n) = [z EXCEPT !.lead = NewLeader(w), !.granted = {}]
    BY <1>4 DEF EstablishLeader, BecomeLeader, z, w
  <1>. QED
    BY <1>2, <1>3, <1>4, <1>5, NewLeaderClock, Zenon DEF NodeState, w

\* What the votes a candidate has counted are worth after another one is counted.
LEMMA CountedReached ==
    ASSUME LeaseTypeOK, VotesEarned, NEW n \in Node, NEW m \in Node, n # m, node[n].granted # {},
           \A g \in Node \ {n} : Moved(g), node'[m].vote = node[n].vote,
           VoteLeq(node[n].vote, node'[n].vote),
           NEW k \in node[n].granted \cup {m}
    PROVE  k \in Node /\ VoteLeq(node[n].vote, node'[k].vote)
  <1>1. node[n].granted \subseteq Node
    BY DEF LeaseTypeOK, NodeState
  <1>2. CASE k = m \/ k = n
    BY <1>2 DEF VoteLeq
  <1>3. CASE k # m /\ k # n
    <2>1. k \in Node /\ VoteLeq(node[n].vote, node[k].vote)
      BY <1>1, <1>3 DEF VotesEarned, Reached
    <2>2. node[n].vote \in Vote /\ node[k].vote \in Vote /\ node'[k].vote \in Vote
          /\ VoteLeq(node[k].vote, node'[k].vote)
      BY <1>3, <2>1, Zenon DEF LeaseTypeOK, NodeState, Moved, VoteMoves
    <2>. QED
      BY <2>1, <2>2, VoteLeqTransitive
  <1>. QED
    BY <1>2, <1>3

\* Engine::handle_vote_resp with a vote granted, by which the candidate wins or not.
LEMMA CountsVote ==
    ASSUME LeaseTypeOK, VotesEarned, NEW n \in Node, NEW m \in Node, n # m, node[n].granted # {},
           \A g \in Node \ {n} : Moved(g), node'[m].vote = node[n].vote,
           NEW y \in NodeState, y.vote = node[n].vote, y.granted = node[n].granted \cup {m},
           y.lead = node[n].lead, y.age = node[n].age,
           node'[n] = IF IsMajority(Node, y.granted) THEN EstablishLeader(y, n) ELSE y
    PROVE  Moved(n) /\ (IsLeader(node'[n], n) => LeadMoves(n))
  <1>. DEFINE v == node[n].vote
  <1>1. node[n] \in NodeState /\ v \in Vote
    BY DEF LeaseTypeOK, NodeState
  <1>2. v.node = n /\ ~v.committed /\ n \in node[n].granted /\ ~IsLeader(node[n], n)
    BY DEF VotesEarned, IsLeader
  <1>3. /\ y \in NodeState /\ y.vote = v /\ y.granted = node[n].granted \cup {m}
        /\ y.lead = node[n].lead /\ y.age = node[n].age
    OBVIOUS
  <1>4. LeadOwned(node[n], n) /\ node[n].lead.vote \in Known
    BY DEF LeaseTypeOK, Known
  <1>5. CASE ~IsMajority(Node, y.granted)
    <2>1. node'[n] = y
      BY <1>5
    <2>2. ~IsLeader(y, n)
      BY <1>2, <1>3 DEF IsLeader
    <2>3. \A k \in y.granted : k \in Node /\ VoteLeq(v, node'[k].vote)
      BY <1>3, <2>1, CountedReached DEF VoteLeq
    <2>4. VoteMoves(n)
      BY <1>2, <1>3, <1>4, <2>1, <2>3, Zenon DEF VoteMoves, VoteLeq, Known
    <2>5. LeaseMoves(n)
      BY <1>2, <1>3, <2>1 DEF LeaseMoves
    <2>6. node'[n].age <= node[n].age
      BY <1>1, <1>3, <2>1 DEF NodeState
    <2>7. LeadOwned(node'[n], n)
      BY <1>3, <1>4, <2>1 DEF LeadOwned, IsLeader
    <2>. QED
      BY <1>3, <2>1, <2>2, <2>4, <2>5, <2>6, <2>7 DEF Moved
  <1>6. CASE IsMajority(Node, y.granted)
    <2>. DEFINE w == ToCommitted(v)
    <2>1. w \in Vote /\ w.committed /\ w.node = n /\ VoteLt(v, w) /\ ToNonCommitted(w) = v /\ w # v
      BY <1>1, <1>2, VoteForms, Zenon
    <2>2. node'[n] = EstablishLeader(y, n)
      BY <1>6
    <2>3. /\ node'[n] \in NodeState /\ node'[n].vote = w /\ node'[n].lead = NewLeader(w)
          /\ node'[n].granted = {} /\ node'[n].enabled /\ node'[n].lease = Lease
      <3>1. y.vote.node = n /\ ~y.vote.committed /\ ToCommitted(y.vote) = w
        BY <1>2, <1>3
      <3>. DEFINE z == EstablishLeader(y, n)
      <3>2. /\ z \in NodeState /\ z.vote = ToCommitted(y.vote)
            /\ z.lead = NewLeader(ToCommitted(y.vote))
            /\ z.granted = {} /\ z.enabled /\ z.lease = Lease
        BY <3>1, EstablishFacts, Zenon
      <3>. QED
        BY <2>2, <3>1, <3>2, Zenon
    <2>4. /\ NewLeader(w) \in Leading /\ NewLeader(w).vote = w
          /\ \A k \in Node : NewLeader(w).clock[k] = LeaseAge
      BY <2>1, NewLeaderClock
    <2>. HIDE DEF w
    <2>5. VoteLeq(v, node'[n].vote)
      BY <2>1, <2>3 DEF VoteLeq
    <2>6. \A k \in y.granted : k \in Node /\ VoteLeq(v, node'[k].vote)
      BY <1>3, <2>5, CountedReached
    <2>7. IsMajority(Node, {k \in Node : VoteLeq(v, node'[k].vote)})
      BY <1>6, <2>6, MajorityGrows, VotersFinite
    <2>8. VoteMoves(n)
      <3>1. VoteLeq(node[n].vote, node'[n].vote) /\ node'[n].vote.node = n
            /\ ToNonCommitted(node'[n].vote) = v
        BY <2>1, <2>3, <2>5
      <3>2. node'[n].lead.vote = node'[n].vote
        BY <2>3, <2>4
      <3>. QED
        BY <2>3, <2>7, <3>1, <3>2, Zenon DEF VoteMoves
    <2>9. LeaseMoves(n)
      BY <1>2, <2>3 DEF LeaseMoves
    <2>10. LeadMoves(n)
      <3>1. node[n].vote.node = n /\ ~node[n].vote.committed /\ node'[n].vote = ToCommitted(node[n].vote)
        BY <1>2, <2>3 DEF w
      <3>2. \A k \in Node : node'[n].lead.clock[k] = LeaseAge
        BY <2>3, <2>4
      <3>. QED
        BY <3>1, <3>2 DEF LeadMoves
    <2>11. LeadOwned(node'[n], n)
      BY <2>1, <2>3, <2>4 DEF LeadOwned, VoteLeq
    <2>. QED
      BY <2>1, <2>3, <2>8, <2>9, <2>10, <2>11 DEF Moved, IsLeader
  <1>. QED
    BY <1>5, <1>6

\* Command::SendVote, the request and its answer.
LEMMA RequestVoteMoves ==
    ASSUME LeaseTypeOK, VotesEarned, NEW n \in Node, NEW m \in Node, NEW behind \in BOOLEAN,
           NEW answered \in BOOLEAN, RequestVote(n, m, behind, answered)
    PROVE  Moves
  <1>. DEFINE x == node[n]
              resp == HandleVoteReq(node[m], m, x.vote, behind)
  <1>1. /\ x \in NodeState /\ x.vote.node = n /\ ~x.vote.committed /\ n # m /\ x.granted # {}
        /\ ~IsLeader(x, n) /\ x.vote \in Known
    BY DEF RequestVote, VotesEarned, LeaseTypeOK, IsLeader, Known
  <1>2. /\ node' = [g \in Node |-> node'[g]] /\ DOMAIN node' = Node
        /\ node'[m] = resp.state
        /\ node'[n] = IF answered THEN HandleVoteResp(x, n, m, resp, behind) ELSE x
        /\ \A g \in Node \ {n, m} : node'[g] = node[g]
    BY <1>1, Zenon DEF RequestVote, LeaseTypeOK
  <1>3. Moved(m) /\ LeadsOn(m) /\ node'[m].vote \in {node[m].vote, x.vote}
    BY <1>1, <1>2, HandlesVoteReq
  <1>4. node'[m].vote \in Known
    BY <1>1, <1>3 DEF Known
  <1>5. \A g \in Node \ {n} : Moved(g) /\ LeadsOn(g)
    BY <1>2, <1>3, NotInvolved
  <1>6. Moved(n) /\ (LeadsOn(n) \/ (IsLeader(node'[n], n) => LeadMoves(n)))
    <2>1. CASE ~answered
      BY <1>2, <2>1, NotInvolved
    <2>2. CASE answered /\ resp.ok /\ node'[m].vote = x.vote
      <3>. DEFINE y == [x EXCEPT !.granted = @ \cup {m}]
      <3>1. /\ y \in NodeState /\ y.vote = x.vote /\ y.granted = x.granted \cup {m}
            /\ y.lead = x.lead /\ y.age = x.age
        BY <1>1 DEF NodeState
      <3>2. node'[n] = IF IsMajority(Node, y.granted) THEN EstablishLeader(y, n) ELSE y
        BY <1>2, <2>2 DEF HandleVoteResp
      <3>. HIDE DEF y
      <3>. QED
        BY <1>1, <1>5, <2>2, <3>1, <3>2, CountsVote, Zenon
    <2>3. CASE answered /\ ~(resp.ok /\ node'[m].vote = x.vote)
      <3>. DEFINE y == [x EXCEPT !.greater = @ \/ behind]
      <3>1. /\ y \in NodeState /\ y.vote = x.vote /\ y.granted = x.granted /\ y.enabled = x.enabled
            /\ y.lead = x.lead /\ y.age = x.age /\ y.lease = x.lease
        BY <1>1 DEF NodeState
      <3>2. node'[n] = TryUpdateVote(y, n, node'[m].vote)
        BY <1>2, <2>3 DEF HandleVoteResp
      <3>. HIDE DEF y
      <3>3. CASE VoteLeq(x.vote, node'[m].vote)
        BY <1>1, <1>4, <3>1, <3>2, <3>3, Accepts DEF TryUpdateVote
      <3>4. CASE ~VoteLeq(x.vote, node'[m].vote)
        <4>1. node'[n] = y
          BY <3>1, <3>2, <3>4 DEF TryUpdateVote
        <4>2. node'[n].age <= node[n].age /\ ~IsLeader(node'[n], n)
          BY <1>1, <3>1, <4>1 DEF NodeState, IsLeader
        <4>3. VoteMoves(n) /\ LeaseMoves(n)
          <5>1. x.lead.vote \in Known
            BY DEF Known
          <5>. QED
            BY <1>1, <3>1, <4>1, <5>1 DEF VoteMoves, LeaseMoves, VoteLeq
        <4>4. LeadOwned(node'[n], n)
          BY <3>1, <4>1 DEF LeaseTypeOK, LeadOwned, IsLeader
        <4>. QED
          BY <3>1, <4>1, <4>2, <4>3, <4>4 DEF Moved, LeadsOn
      <3>. QED
        BY <3>3, <3>4
    <2>. QED
      BY <2>1, <2>2, <2>3
  <1>7. \A g \in Node : Moved(g) /\ (IsLeader(node'[g], g) => LeadMoves(g))
    BY <1>5, <1>6, LeaderWaits
  <1>. QED
    BY <1>2, <1>7, NodesMoved DEF RequestVote

\* ReplicationHandler::update_leader_clock touches the clock of one node.
LEMMA UpdateLeaderClockFacts ==
    ASSUME NEW x \in NodeState, x.lead \in Leading, NEW m \in Node, NEW t \in 0..LeaseAge
    PROVE  LET y == UpdateLeaderClock(x, m, t)
           IN  /\ y \in NodeState /\ y.lead \in Leading
               /\ y.vote = x.vote /\ y.age = x.age /\ y.lease = x.lease /\ y.enabled = x.enabled
               /\ y.granted = x.granted
               /\ y.lead.vote = x.lead.vote
               /\ y.lead.to = x.lead.to /\ y.lead.refused = x.lead.refused
               /\ \A k \in Node \ {m} : y.lead.clock[k] = x.lead.clock[k]
  <1>. DEFINE c == [x.lead.clock EXCEPT ![m] = Min({x.lead.clock[m], t})]
              l == [x.lead EXCEPT !.clock = c]
              y == UpdateLeaderClock(x, m, t)
  <1>0. LeaseAge \in Nat
    BY LeaseAssumption DEF LeaseAge
  <1>1. x.lead.clock \in [Node -> 0..LeaseAge]
    BY DEF Leading, Clock
  <1>2. Min({x.lead.clock[m], t}) \in 0..LeaseAge
    <2>1. x.lead.clock[m] \in Nat /\ t \in Nat /\ x.lead.clock[m] \in 0..LeaseAge
      BY <1>0, <1>1
    <2>. QED
      BY <2>1, MinOfTwo
  <1>3. c \in Clock /\ \A k \in Node \ {m} : c[k] = x.lead.clock[k]
    BY <1>1, <1>2 DEF Clock
  <1>4. y = [x EXCEPT !.lead = l]
    BY DEF UpdateLeaderClock
  <1>. HIDE DEF c, y
  <1>5. /\ l \in Leading /\ l.vote = x.lead.vote
        /\ l.to = x.lead.to /\ l.refused = x.lead.refused /\ l.clock = c
    BY <1>3 DEF Leading
  <1>. HIDE DEF l
  <1>6. /\ y \in NodeState /\ y.lead = l /\ y.granted = x.granted
        /\ y.vote = x.vote /\ y.age = x.age /\ y.lease = x.lease /\ y.enabled = x.enabled
    BY <1>4, <1>5 DEF NodeState
  <1>. QED
    BY <1>3, <1>5, <1>6 DEF y

\* A leader hears of an acknowledgement of its vote, or of a refusal.
LEMMA HearsBack ==
    ASSUME LeaseTypeOK, NEW n \in Node, NEW m \in Node, n # m, node[n].lead # NotLeading,
           \A g \in Node \ {n} : Moved(g),
           node'[n] \in NodeState, node'[n].lead \in Leading,
           node'[n].vote = node[n].vote, node'[n].age = node[n].age,
           node'[n].granted = node[n].granted,
           node'[n].lead.vote = node[n].lead.vote,
           node'[n].lead.to = node[n].lead.to, node[n].lead.refused => node'[n].lead.refused,
           \A k \in Node \ {m} : node'[n].lead.clock[k] = node[n].lead.clock[k],
           node'[n].lead.refused \/ (node'[m].vote = node[n].lead.vote /\ node'[m].age = 0)
    PROVE  Moved(n) /\ (IsLeader(node'[n], n) => LeadMoves(n))
  <1>1. /\ node[n].vote.node = n /\ node[n].vote \in Known /\ node[n].lead.vote \in Known
        /\ node[n].vote.committed => node[n].lead.vote = node[n].vote
        /\ \A k \in Node : node[n].lead.clock[k] \in Nat
    BY LeadFacts DEF Known
  <1>2. node'[n].age <= node[n].age
    BY DEF LeaseTypeOK, NodeState
  <1>3. Moved(n)
    <2>1. VoteMoves(n)
      BY <1>1 DEF VoteMoves, VoteLeq
    <2>2. LeaseMoves(n)
      BY <1>1 DEF LeaseMoves
    <2>3. LeadOwned(node'[n], n)
      BY DEF LeaseTypeOK, LeadOwned, IsLeader
    <2>. QED
      BY <1>1, <1>2, <2>1, <2>2, <2>3 DEF Moved
  <1>4. ASSUME NEW k \in Node, ~node'[n].lead.refused, IsLeader(node'[n], n) PROVE AckMoves(n, k)
    <2>1. node[k].age \in Nat /\ node'[k].age \in Nat
      <3>1. node[k] \in NodeState /\ node'[k] \in NodeState
        BY <1>3 DEF LeaseTypeOK, Moved
      <3>. QED
        BY <3>1, AgeType
    <2>2. node[n].lead.clock[k] \in Nat /\ node[n].lead.vote = node[n].vote
      BY <1>1, <1>4 DEF IsLeader
    <2>3. CASE k # m
      BY <1>3, <2>1, <2>2, <2>3 DEF AckMoves, Moved
    <2>4. CASE k = m
      <3>1. node'[n].lead.clock \in [Node -> 0..LeaseAge]
        BY DEF Leading, Clock
      <3>2. 0 <= node'[n].lead.clock[m]
        BY <3>1
      <3>. QED
        BY <1>4, <2>2, <2>4, <3>2 DEF AckMoves
    <2>. QED
      BY <2>3, <2>4
  <1>. QED
    BY <1>1, <1>3, <1>4 DEF LeadMoves, IsLeader

\* An append-entries and its answer.
LEMMA ReplicateMoves ==
    ASSUME LeaseTypeOK, VotesEarned, NEW n \in Node, NEW m \in Node, Replicate(n, m)
    PROVE  Moves
  <1>. DEFINE x == node[n]
              v == x.lead.vote
  <1>1. /\ x.lead # NotLeading /\ m # n /\ x \in NodeState /\ node[m] \in NodeState
        /\ x.vote.node = n /\ v.committed /\ v \in Known /\ node[m].vote \in Known
        /\ x.lead \in Leading
    BY LeadFacts DEF Replicate, LeaseTypeOK, Known
  <1>2. CASE VoteLeq(node[m].vote, v)
    <2>1. /\ node' = [g \in Node |-> node'[g]] /\ DOMAIN node' = Node
          /\ node'[m] = UpdateVote(node[m], m, v)
          /\ node'[n] = UpdateLeaderClock(x, m, 0)
          /\ \A g \in Node \ {n, m} : node'[g] = node[g]
      BY <1>1, <1>2, Zenon DEF Replicate, LeaseTypeOK
    <2>2. Moved(m) /\ LeadsOn(m) /\ node'[m].vote = v /\ node'[m].age = 0
      BY <1>1, <1>2, <2>1, Accepts
    <2>3. \A g \in Node \ {n} : Moved(g) /\ LeadsOn(g)
      BY <2>1, <2>2, NotInvolved
    <2>4. 0 \in 0..LeaseAge
      BY LeaseAssumption DEF LeaseAge
    <2>. DEFINE y == UpdateLeaderClock(x, m, 0)
    <2>5. /\ y \in NodeState /\ y.lead \in Leading
          /\ y.vote = x.vote /\ y.age = x.age /\ y.granted = x.granted
          /\ y.lead.vote = v /\ y.lead.to = x.lead.to /\ y.lead.refused = x.lead.refused
          /\ \A k \in Node \ {m} : y.lead.clock[k] = x.lead.clock[k]
      BY <1>1, <2>4, UpdateLeaderClockFacts
    <2>. HIDE DEF y
    <2>6. Moved(n) /\ (IsLeader(node'[n], n) => LeadMoves(n))
      BY <1>1, <2>1, <2>2, <2>3, <2>5, HearsBack DEF y
    <2>7. \A g \in Node : Moved(g) /\ (IsLeader(node'[g], g) => LeadMoves(g))
      BY <2>3, <2>6, LeaderWaits
    <2>. QED
      BY <2>1, <2>7, NodesMoved DEF Replicate
  <1>3. CASE ~VoteLeq(node[m].vote, v)
    <2>1. /\ node' = [g \in Node |-> node'[g]] /\ DOMAIN node' = Node
          /\ node'[n] = TryUpdateVote(x, n, node[m].vote)
          /\ \A g \in Node \ {n} : node'[g] = node[g]
      BY <1>1, <1>3, Zenon DEF Replicate, LeaseTypeOK
    <2>2. Moved(n) /\ LeadsOn(n)
      <3>1. CASE VoteLeq(x.vote, node[m].vote)
        <4>1. node'[n] = UpdateVote(x, n, node[m].vote)
          BY <2>1, <3>1 DEF TryUpdateVote
        <4>. QED
          BY <1>1, <3>1, <4>1, Accepts
      <3>2. CASE ~VoteLeq(x.vote, node[m].vote)
        BY <2>1, <3>2, NotInvolved DEF TryUpdateVote
      <3>. QED
        BY <3>1, <3>2
    <2>3. \A g \in Node : Moved(g) /\ LeadsOn(g)
      BY <2>1, <2>2, NotInvolved
    <2>4. \A g \in Node : IsLeader(node'[g], g) => LeadMoves(g)
      BY <2>3, LeaderWaits
    <2>. QED
      BY <2>1, <2>3, <2>4, NodesMoved DEF Replicate
  <1>. QED
    BY <1>2, <1>3

\* RaftCore::send_heartbeat
LEMMA SendHeartbeatMoves ==
    ASSUME LeaseTypeOK, VotesEarned, NEW n \in Node, NEW m \in Node, SendHeartbeat(n, m)
    PROVE  Moves
  <1>. DEFINE v == node[n].lead.vote
  <1>1. v \in Known /\ v.committed /\ v.node = n /\ m # n /\ v \in Vote
    BY LeadFacts DEF SendHeartbeat
  <1>2. beat' = [vote |-> v, target |-> m, age |-> 0] /\ UNCHANGED <<node, transfers, waived, disruptions>>
    BY DEF SendHeartbeat, HeartbeatEvent
  <1>3. beat' \in Event
    BY <1>1, <1>2, LeaseAssumption DEF Event, LeaseAge
  <1>4. MessageMoves
    <2>1. beat'.vote = v /\ beat'.target = m
      BY <1>2
    <2>2. \A msg \in transfers' :
              msg \in transfers /\ msg.from \in Known /\ msg.from.committed /\ msg.from.node # msg.target
      BY <1>2 DEF VotesEarned, Known
    <2>. QED
      BY <1>1, <2>1, <2>2 DEF MessageMoves
  <1>5. \A g \in Node : Moved(g) /\ LeadsOn(g)
    BY <1>2, NotInvolved
  <1>6. \A g \in Node : IsLeader(node'[g], g) => LeadMoves(g)
    BY <1>5, LeaderWaits
  <1>7. LeaseTypeOK'
    BY <1>2, <1>3 DEF LeaseTypeOK
  <1>. QED
    BY <1>2, <1>4, <1>5, <1>6, <1>7 DEF Moves, Moved

\* HeartbeatWorker::run and Notification::HeartbeatProgress
LEMMA DeliverHeartbeatMoves ==
    ASSUME LeaseTypeOK, VotesEarned, NEW answered \in BOOLEAN, DeliverHeartbeat(answered)
    PROVE  Moves
  <1>. DEFINE n == beat.vote.node
              m == beat.target
              v == beat.vote
              accepts == VoteLeq(node[m].vote, v)
              acked == answered /\ node[n].lead.vote = v
              y == UpdateLeaderClock(node[n], m, beat.age)
  <1>1. beat \in Event /\ v.committed /\ n # m
    BY DEF DeliverHeartbeat, LeaseTypeOK, VotesEarned
  <1>2. m \in Node /\ v \in Vote /\ beat.age \in 0..LeaseAge /\ v \in Known
    BY <1>1 DEF Event, Known
  <1>3. n \in Node
    BY <1>1, <1>2 DEF VotesEarned, Vote
  <1>4. /\ node' = [g \in Node |-> node'[g]] /\ DOMAIN node' = Node
        /\ node'[m] = IF accepts THEN UpdateVote(node[m], m, v) ELSE node[m]
        /\ node'[n] = IF acked THEN [y EXCEPT !.lead.refused = @ \/ ~accepts] ELSE node[n]
        /\ \A g \in Node \ {n, m} : node'[g] = node[g]
    BY <1>1, <1>2, <1>3, Zenon DEF DeliverHeartbeat, LeaseTypeOK
  <1>. HIDE DEF n, m, v, y
  <1>5. node[m] \in NodeState /\ node[n] \in NodeState
    BY <1>2, <1>3 DEF LeaseTypeOK
  <1>6. Moved(m) /\ LeadsOn(m) /\ (accepts => node'[m].vote = v /\ node'[m].age = 0)
    <2>1. CASE accepts
      BY <1>1, <1>2, <1>4, <1>5, <2>1, Accepts
    <2>2. CASE ~accepts
      BY <1>2, <1>4, <2>2, NotInvolved
    <2>. QED
      BY <2>1, <2>2
  <1>7. \A g \in Node \ {n} : Moved(g) /\ LeadsOn(g)
    BY <1>4, <1>6, NotInvolved
  <1>8. Moved(n) /\ (LeadsOn(n) \/ (IsLeader(node'[n], n) => LeadMoves(n)))
    <2>1. CASE ~acked
      BY <1>3, <1>4, <2>1, NotInvolved
    <2>2. CASE acked
      <3>1. node[n].lead # NotLeading
        BY <1>1, <2>2 DEF NotLeading, DefaultVote, v
      <3>2. node[n].lead \in Leading
        BY <1>3, <3>1, LeadFacts
      <3>3. /\ y \in NodeState /\ y.lead \in Leading
            /\ y.vote = node[n].vote /\ y.age = node[n].age /\ y.granted = node[n].granted
            /\ y.lead.vote = node[n].lead.vote
            /\ y.lead.to = node[n].lead.to /\ y.lead.refused = node[n].lead.refused
            /\ \A k \in Node \ {m} : y.lead.clock[k] = node[n].lead.clock[k]
        BY <1>2, <1>5, <3>2, UpdateLeaderClockFacts DEF y
      <3>. DEFINE l == [y.lead EXCEPT !.refused = y.lead.refused \/ ~accepts]
      <3>4. node'[n] = [y EXCEPT !.lead = l]
        BY <1>4, <2>2
      <3>5. /\ l \in Leading /\ l.vote = y.lead.vote /\ l.to = y.lead.to /\ l.clock = y.lead.clock
            /\ l.refused = (y.lead.refused \/ ~accepts)
        BY <3>3, Zenon DEF Leading
      <3>. HIDE DEF l, accepts
      <3>6. /\ node'[n] \in NodeState /\ node'[n].lead = l /\ node'[n].vote = y.vote
            /\ node'[n].age = y.age /\ node'[n].granted = y.granted
        BY <3>3, <3>4, <3>5 DEF NodeState
      <3>7. node'[n].lead.refused \/ (node'[m].vote = node[n].lead.vote /\ node'[m].age = 0)
        BY <1>6, <2>2, <3>5, <3>6, Zenon
      <3>8. /\ node'[n].lead \in Leading /\ node'[n].vote = node[n].vote
            /\ node'[n].age = node[n].age /\ node'[n].granted = node[n].granted
            /\ node'[n].lead.vote = node[n].lead.vote
            /\ node'[n].lead.to = node[n].lead.to
            /\ node[n].lead.refused => node'[n].lead.refused
            /\ \A k \in Node \ {m} : node'[n].lead.clock[k] = node[n].lead.clock[k]
        BY <3>3, <3>5, <3>6, Zenon
      <3>. QED
        BY <1>1, <1>2, <1>3, <1>7, <3>1, <3>6, <3>7, <3>8, HearsBack, Zenon
    <2>. QED
      BY <2>1, <2>2
  <1>9. \A g \in Node : Moved(g) /\ (IsLeader(node'[g], g) => LeadMoves(g))
    BY <1>7, <1>8, LeaderWaits
  <1>. QED
    BY <1>4, <1>9, NodesMoved, Zenon DEF DeliverHeartbeat

\* ExternalCommand::TriggerTransferLeader: the leader gives its lease up.
LEMMA TriggerTransferMoves ==
    ASSUME LeaseTypeOK, VotesEarned, NEW n \in Node, NEW to \in Node, TriggerTransferLeader(n, to)
    PROVE  Moves
  <1>. DEFINE x == node[n]
              l == [x.lead EXCEPT !.to = to]
              y == [x EXCEPT !.lease = 0, !.enabled = FALSE, !.lead = l]
  <1>1. /\ x.lead # NotLeading /\ x.lead.vote.node = n /\ x.lead.vote.committed /\ x \in NodeState
        /\ x.vote.node = n /\ x.vote \in Known
        /\ x.lead.vote \in Vote /\ x.lead.vote \in Known /\ x.lead \in Leading
        /\ \A m \in Node : x.lead.clock[m] \in Nat
    BY LeadFacts DEF TriggerTransferLeader, LeaseTypeOK, Known
  <1>2. l \in Leading /\ l.vote = x.lead.vote /\ l.to = to /\ l.clock = x.lead.clock /\ l.refused = x.lead.refused
    BY <1>1 DEF Leading
  <1>3. TransferTo(x, to) = y
    BY <1>1 DEF TransferTo, DisableLease, NodeState
  <1>. HIDE DEF l
  <1>4. /\ y \in NodeState /\ y.vote = x.vote /\ y.age = x.age /\ y.granted = x.granted /\ y.lead = l
    BY <1>1, <1>2, Zenon DEF NodeState
  <1>5. /\ node' = [g \in Node |-> node'[g]] /\ DOMAIN node' = Node
        /\ node'[n] = y /\ \A g \in Node \ {n} : node'[g] = node[g]
        /\ transfers' = transfers \cup {[from |-> x.lead.vote, to |-> to, target |-> m] : m \in Node \ {n}}
        /\ UNCHANGED <<beat, waived>> /\ disruptions' = disruptions + 1 /\ disruptions < MaxDisruptions
    BY <1>3, Zenon DEF TriggerTransferLeader, LeaseTypeOK, BroadcastTransferLeader
  <1>. HIDE DEF y
  <1>6. \A g \in Node \ {n} : Moved(g) /\ LeadsOn(g)
    BY <1>5, NotInvolved
  <1>7. Moved(n)
    <2>1. LeadOwned(y, n) /\ y.age <= x.age
      <3>1. LeadOwned(x, n)
        BY DEF LeaseTypeOK
      <3>. QED
        BY <1>1, <1>2, <1>4, <3>1 DEF LeadOwned, NodeState
    <2>. QED
      <3>1. VoteMoves(n)
        BY <1>1, <1>2, <1>4, <1>5 DEF VoteMoves, VoteLeq
      <3>2. LeaseMoves(n)
        BY <1>1, <1>4, <1>5 DEF LeaseMoves
      <3>. QED
        BY <1>1, <1>2, <1>4, <1>5, <2>1, <3>1, <3>2 DEF Moved
  <1>8. IsLeader(node'[n], n) => LeadMoves(n)
    <2>1. to # NoNode
      BY NodeAssumption
    <2>2. ASSUME NEW m \in Node PROVE AckMoves(n, m)
      <3>1. node[m].age \in Nat /\ node'[m].age \in Nat
        <4>1. node[m] \in NodeState /\ node'[m] \in NodeState
          BY <1>6, <1>7 DEF LeaseTypeOK, Moved
        <4>. QED
          BY <4>1, AgeType
      <3>2. x.lead.clock[m] \in Nat
        BY <1>1
      <3>. QED
        <4>1. node'[n].lead.clock[m] = x.lead.clock[m]
          BY <1>2, <1>4, <1>5
        <4>2. node'[m].vote = node[m].vote => node'[m].age <= node[m].age
          <5>1. Moved(m)
            BY <1>6, <1>7
          <5>. QED
            BY <5>1 DEF Moved
        <4>. QED
          BY <3>1, <3>2, <4>1, <4>2 DEF AckMoves
    <2>. QED
      BY <1>1, <1>2, <1>4, <1>5, <2>1, <2>2 DEF LeadMoves, IsLeader
  <1>9. \A g \in Node : Moved(g) /\ (IsLeader(node'[g], g) => LeadMoves(g))
    BY <1>6, <1>7, <1>8, LeaderWaits
  <1>10. MessageMoves
    <2>1. beat' # NoBeat =>
              beat'.vote \in Known /\ beat'.vote.committed /\ beat'.vote.node # beat'.target
      BY <1>5 DEF VotesEarned, Known
    <2>2. ASSUME NEW msg \in transfers
          PROVE  msg.from \in Known /\ msg.from.committed /\ msg.from.node # msg.target
      BY DEF VotesEarned, Known
    <2>3. ASSUME NEW m \in Node \ {n}, NEW msg, msg = [from |-> x.lead.vote, to |-> to, target |-> m]
          PROVE  /\ msg.from \in Known /\ msg.from.committed /\ msg.from.node # msg.target
                 /\ \E k \in Node : msg.from.node = k /\ node'[k].lead.to # NoNode
      <3>1. msg.from = x.lead.vote /\ msg.target = m
        BY <2>3
      <3>2. node'[n].lead.to # NoNode
        BY <1>2, <1>4, <1>5, NodeAssumption
      <3>. QED
        BY <1>1, <3>1, <3>2
    <2>. QED
      BY <1>5, <2>1, <2>2, <2>3 DEF MessageMoves
  <1>11. transfers' \subseteq [from : Vote, to : Node, target : Node]
    BY <1>1, <1>5 DEF LeaseTypeOK
  <1>12. disruptions' \in 0..MaxDisruptions
    BY <1>5, LeaseAssumption DEF LeaseTypeOK
  <1>13. node' \in [Node -> NodeState]
    BY <1>5, <1>9 DEF Moved
  <1>14. LeaseTypeOK'
    BY <1>5, <1>9, <1>11, <1>12, <1>13, Zenon DEF LeaseTypeOK, Moved
  <1>. QED
    BY <1>5, <1>9, <1>10, <1>14 DEF Moves, Moved

\* Raft::handle_transfer_leader: a follower gives up the lease of the leader that
\* asks for it.
LEMMA DeliverTransferMoves ==
    ASSUME LeaseTypeOK, VotesEarned, NEW msg \in transfers, DeliverTransfer(msg)
    PROVE  Moves
  <1>. DEFINE m == msg.target
              x == node[m]
              y == DisableLease(x)
  <1>1. m \in Node /\ msg.from.node # m
    BY DEF LeaseTypeOK, VotesEarned
  <1>2. /\ node' = [g \in Node |-> node'[g]] /\ DOMAIN node' = Node
        /\ node'[m] = HandleTransferLeader(x, m, msg)
        /\ \A g \in Node \ {m} : node'[g] = node[g]
    BY <1>1, Zenon DEF DeliverTransfer, LeaseTypeOK
  <1>. HIDE DEF m
  <1>3. x \in NodeState
    BY <1>1 DEF LeaseTypeOK
  <1>4. Moved(m) /\ LeadsOn(m)
    <2>1. CASE x.vote # msg.from
      BY <1>1, <1>2, <2>1, NotInvolved DEF HandleTransferLeader
    <2>2. CASE x.vote = msg.from
      <3>1. ~IsLeader(x, m) /\ Transferred(x.vote)
        BY <1>1, <2>2 DEF IsLeader, Transferred, m
      <3>2. /\ y \in NodeState /\ y.vote = x.vote /\ y.lead = x.lead /\ y.granted = x.granted
            /\ y.age = x.age
        BY <1>3, Zenon DEF DisableLease, NodeState
      <3>3. node'[m] = IF m = msg.to THEN Elect(y, m) ELSE y
        BY <1>2, <2>2 DEF HandleTransferLeader
      <3>. HIDE DEF y
      <3>4. CASE m = msg.to
        BY <1>1, <3>1, <3>2, <3>3, <3>4, Elects
      <3>5. CASE m # msg.to
        <4>1. node'[m] = y /\ x.vote \in Known /\ x.lead.vote \in Known
          BY <1>1, <3>3, <3>5 DEF Known
        <4>2. y.age <= x.age /\ ~IsLeader(y, m)
          BY <1>3, <3>1, <3>2 DEF NodeState, IsLeader
        <4>3. VoteMoves(m) /\ LeaseMoves(m)
          BY <3>1, <3>2, <4>1, Zenon DEF VoteMoves, LeaseMoves, VoteLeq
        <4>4. LeadOwned(node'[m], m)
          BY <1>1, <3>2, <4>1 DEF LeaseTypeOK, LeadOwned, IsLeader
        <4>. QED
          BY <3>2, <4>1, <4>2, <4>3, <4>4 DEF Moved, LeadsOn
      <3>. QED
        BY <3>4, <3>5
    <2>. QED
      BY <2>1, <2>2
  <1>5. \A g \in Node : Moved(g) /\ LeadsOn(g)
    BY <1>2, <1>4, NotInvolved
  <1>6. \A g \in Node : IsLeader(node'[g], g) => LeadMoves(g)
    BY <1>5, LeaderWaits
  <1>. QED
    BY <1>2, <1>5, <1>6, NodesMoved DEF DeliverTransfer

\* A step that ignores leases is as good as what it does to each node's vote.
LEMMA WaivedMoves ==
    ASSUME LeaseTypeOK, VotesEarned, node' = [g \in Node |-> node'[g]],
           \A g \in Node : Legal(g),
           beat' = beat \/ beat' = NoBeat, transfers' = transfers, waived' = TRUE,
           disruptions < MaxDisruptions, disruptions' = disruptions + 1
    PROVE  Moves
  <1>1. /\ MessageMoves
        /\ beat' \in Event \cup {NoBeat} /\ transfers' \subseteq [from : Vote, to : Node, target : Node]
    BY MessagesStay
  <1>2. node' \in [Node -> NodeState]
    BY DEF Legal
  <1>3. disruptions' \in 0..MaxDisruptions
    BY LeaseAssumption DEF LeaseTypeOK
  <1>4. LeaseTypeOK'
    BY <1>1, <1>2, <1>3 DEF LeaseTypeOK, Legal
  <1>. QED
    BY <1>1, <1>4 DEF Moves, Legal

\* ExternalCommand::Elect
LEMMA ElectCommandMoves ==
    ASSUME LeaseTypeOK, VotesEarned, NEW n \in Node, ElectCommand(n)
    PROVE  Moves
  <1>1. /\ node' = [g \in Node |-> node'[g]] /\ node[n] \in NodeState
        /\ node'[n] = Elect(node[n], n) /\ \A g \in Node \ {n} : node'[g] = node[g]
    BY Zenon DEF ElectCommand, LeaseTypeOK
  <1>2. Legal(n)
    BY <1>1, Elects
  <1>3. \A g \in Node : Legal(g)
    BY <1>1, <1>2, NotInvolved DEF Moved, Legal
  <1>. QED
    BY <1>1, <1>3, WaivedMoves DEF ElectCommand

\* A node starts without a vote, a lease and leader state.
LEMMA PristineType ==
    /\ Pristine \in NodeState /\ Pristine.vote = DefaultVote /\ DefaultVote \in Vote
    /\ Pristine.granted = {} /\ Pristine.lead = NotLeading
  <1>1. DefaultVote \in Vote
    BY DEF DefaultVote, Vote
  <1>2. 0 \in 0..(Lease + ExpiredAge)
    BY LeaseAssumption DEF ExpiredAge
  <1>. QED
    BY <1>1, <1>2 DEF Pristine, NodeState

\* Engine::startup after a crash: the vote is all that is left.
LEMMA RestartMoves ==
    ASSUME LeaseTypeOK, VotesEarned, NEW n \in Node, Restart(n)
    PROVE  Moves
  <1>. DEFINE v == node[n].vote
              x == [Pristine EXCEPT !.vote = v]
              y == IF IsLeader(x, n) THEN BecomeLeader(x) ELSE x
  <1>1. v \in Vote /\ v \in Known
    BY DEF LeaseTypeOK, NodeState, Known
  <1>2. x \in NodeState /\ x.vote = v /\ x.granted = {} /\ x.lead = NotLeading
    <2>1. Pristine \in NodeState /\ Pristine.granted = {} /\ Pristine.lead = NotLeading
      BY PristineType
    <2>. QED
      BY <1>1, <2>1 DEF NodeState
  <1>3. /\ node' = [g \in Node |-> node'[g]]
        /\ node'[n] = y /\ \A g \in Node \ {n} : node'[g] = node[g]
    BY Zenon DEF Restart, LeaseTypeOK
  <1>. HIDE DEF x
  <1>4. /\ y \in NodeState /\ y.vote = v /\ y.granted = {}
        /\ LeadOwned(y, n) /\ y.lead.vote \in {v, DefaultVote}
    <2>1. CASE IsLeader(x, n)
      <3>1. NewLeader(v) \in Leading /\ NewLeader(v).vote = v
        BY <1>1, NewLeaderClock
      <3>2. /\ y \in NodeState /\ y.vote = v /\ y.granted = {} /\ y.lead = NewLeader(v)
        BY <1>2, <2>1, <3>1, Zenon DEF BecomeLeader, NodeState
      <3>. QED
        BY <1>2, <2>1, <3>1, <3>2 DEF LeadOwned, IsLeader, VoteLeq
    <2>2. CASE ~IsLeader(x, n)
      BY <1>2, <2>2 DEF LeadOwned, NotLeading
    <2>. QED
      BY <2>1, <2>2
  <1>5. Legal(n)
    BY <1>1, <1>3, <1>4 DEF Legal, VoteMoves, VoteLeq
  <1>6. \A g \in Node : Legal(g)
    BY <1>3, <1>5, NotInvolved DEF Moved, Legal
  <1>. QED
    BY <1>3, <1>6, WaivedMoves DEF Restart

\* The state of a node with a lease of another age and another clock.
Aged(x, a, c) == [x EXCEPT !.age = a, !.lead.clock = c]

LEMMA AgedNode ==
    ASSUME NEW x \in NodeState, NEW a \in 0..(Lease + ExpiredAge), NEW c,
           NEW y, y = Aged(x, a, c)
    PROVE  /\ y.vote = x.vote /\ y.lease = x.lease /\ y.enabled = x.enabled
           /\ y.granted = x.granted /\ y.greater = x.greater /\ y.age = a
           /\ y.lead = [x.lead EXCEPT !.clock = c]
           /\ y.lead \in Leading \cup {NotLeading} => y \in NodeState
  <1>. DEFINE l == [x.lead EXCEPT !.clock = c]
  <1>1. x = [vote |-> x.vote, age |-> x.age, lease |-> x.lease, enabled |-> x.enabled,
             granted |-> x.granted, greater |-> x.greater, lead |-> x.lead]
    BY DEF NodeState
  <1>2. y = [x EXCEPT !.age = a, !.lead = l]
    BY DEF Aged
  <1>. HIDE DEF l
  <1>3. y = [vote |-> x.vote, age |-> a, lease |-> x.lease, enabled |-> x.enabled,
             granted |-> x.granted, greater |-> x.greater, lead |-> l]
    BY <1>1, <1>2, Zenon
  <1>4. l \in Leading \cup {NotLeading} => y \in NodeState
    BY <1>3 DEF NodeState
  <1>. QED
    BY <1>3, <1>4 DEF l

\* Time passes: leases and acknowledgements grow older together.
LEMMA TickMoves ==
    ASSUME LeaseTypeOK, VotesEarned, Tick
    PROVE  Moves
  <1>. DEFINE clock(g) == [m \in DOMAIN node[g].lead.clock |-> Older(node[g].lead.clock[m], LeaseAge)]
              age(g) == Older(node[g].age, node[g].lease + ExpiredAge)
  <1>1. \A g \in Node : node'[g] = Aged(node[g], age(g), clock(g))
    BY Zenon DEF Tick, Aged
  <1>2. node' = [g \in Node |-> node'[g]]
    BY Zenon DEF Tick
  <1>3. \A g \in Node : node[g] \in NodeState
    BY DEF LeaseTypeOK
  <1>4. \A g \in Node : age(g) \in 0..(Lease + ExpiredAge) /\ age(g) <= node[g].age + 1
    <2>. TAKE g \in Node
    <2>1. /\ node[g].age \in Nat /\ node[g].lease + ExpiredAge \in Nat
          /\ node[g].lease + ExpiredAge <= Lease + ExpiredAge
      BY <1>3, LeaseAssumption DEF NodeState, ExpiredAge
    <2>2. age(g) \in 0..(node[g].lease + ExpiredAge) /\ age(g) <= node[g].age + 1
      BY <2>1, OlderByOne, Zenon
    <2>. HIDE DEF age
    <2>. QED
      BY <2>1, <2>2, LeaseAssumption DEF ExpiredAge
  <1>. HIDE DEF age
  <1>5. \A g \in Node : node[g].lead # NotLeading =>
            /\ clock(g) \in Clock
            /\ \A m \in Node : clock(g)[m] <= Lease => clock(g)[m] = node[g].lead.clock[m] + 1
    <2>. SUFFICES ASSUME NEW g \in Node, node[g].lead # NotLeading
                  PROVE  /\ clock(g) \in Clock
                         /\ \A m \in Node : clock(g)[m] <= Lease =>
                                clock(g)[m] = node[g].lead.clock[m] + 1
      OBVIOUS
    <2>1. node[g].lead.clock \in [Node -> 0..LeaseAge] /\ LeaseAge \in Nat
      <3>1. node[g].lead \in Leading
        BY LeadFacts
      <3>. QED
        BY <3>1, LeaseAssumption DEF Leading, Clock, LeaseAge
    <2>2. \A m \in Node : /\ clock(g)[m] = Older(node[g].lead.clock[m], LeaseAge)
                          /\ node[g].lead.clock[m] \in Nat
      BY <2>1
    <2>3. \A m \in Node : /\ clock(g)[m] \in 0..LeaseAge
                          /\ clock(g)[m] < LeaseAge => clock(g)[m] = node[g].lead.clock[m] + 1
      BY <2>1, <2>2, OlderByOne, Zenon
    <2>4. clock(g) \in Clock
      BY <2>1, <2>3, Zenon DEF Clock
    <2>. HIDE DEF clock
    <2>. QED
      BY <2>3, <2>4, LeaseAssumption DEF LeaseAge
  <1>6. \A g \in Node : node[g].lead = NotLeading => clock(g) = <<>>
    <2>. SUFFICES ASSUME NEW g \in Node, node[g].lead = NotLeading
                  PROVE  clock(g) = <<>>
      OBVIOUS
    <2>1. node[g].lead = NotLeading
      OBVIOUS
    <2>2. NotLeading.clock = <<>>
      BY DEF NotLeading
    <2>3. DOMAIN <<>> = {}
      OBVIOUS
    <2>4. clock(g) = [m \in {} |-> Older(node[g].lead.clock[m], LeaseAge)]
      BY <2>1, <2>2, <2>3
    <2>5. [m \in {} |-> Older(node[g].lead.clock[m], LeaseAge)] = <<>>
      OBVIOUS
    <2>. QED
      BY <2>1, <2>4, <2>5
  <1>. HIDE DEF clock
  <1>7. \A g \in Node :
            /\ node'[g].vote = node[g].vote /\ node'[g].lease = node[g].lease
            /\ node'[g].enabled = node[g].enabled /\ node'[g].granted = node[g].granted
            /\ node'[g].greater = node[g].greater /\ node'[g].age = age(g)
            /\ IsLeader(node'[g], g) = IsLeader(node[g], g)
            /\ node'[g].lead = [node[g].lead EXCEPT !.clock = clock(g)]
            /\ node'[g].lead \in Leading \cup {NotLeading} => node'[g] \in NodeState
    <2>. TAKE g \in Node
    <2>1. /\ node[g] \in NodeState /\ age(g) \in 0..(Lease + ExpiredAge)
          /\ node'[g] = Aged(node[g], age(g), clock(g))
      BY <1>1, <1>3, <1>4
    <2>2. /\ node'[g].vote = node[g].vote /\ node'[g].lease = node[g].lease
          /\ node'[g].enabled = node[g].enabled /\ node'[g].granted = node[g].granted
          /\ node'[g].greater = node[g].greater /\ node'[g].age = age(g)
          /\ node'[g].lead = [node[g].lead EXCEPT !.clock = clock(g)]
          /\ node'[g].lead \in Leading \cup {NotLeading} => node'[g] \in NodeState
      <3>. DEFINE y == Aged(node[g], age(g), clock(g))
      <3>1. /\ y.vote = node[g].vote /\ y.lease = node[g].lease
            /\ y.enabled = node[g].enabled /\ y.granted = node[g].granted
            /\ y.greater = node[g].greater /\ y.age = age(g)
            /\ y.lead = [node[g].lead EXCEPT !.clock = clock(g)]
            /\ y.lead \in Leading \cup {NotLeading} => y \in NodeState
        BY <2>1, AgedNode
      <3>. QED
        BY <2>1, <3>1
    <2>3. IsLeader(node'[g], g) = IsLeader(node[g], g)
      BY <2>2 DEF IsLeader
    <2>. QED
      BY <2>2, <2>3
  <1>8. \A g \in Node : node[g].lead # NotLeading =>
            /\ node'[g].lead.vote = node[g].lead.vote
            /\ node'[g].lead.clock = clock(g) /\ node'[g].lead.to = node[g].lead.to
            /\ node'[g].lead.refused = node[g].lead.refused
            /\ node'[g].lead \in Leading /\ node'[g] \in NodeState
    <2>. SUFFICES ASSUME NEW g \in Node, node[g].lead # NotLeading
                  PROVE  /\ node'[g].lead.vote = node[g].lead.vote
                         /\ node'[g].lead.clock = clock(g) /\ node'[g].lead.to = node[g].lead.to
                         /\ node'[g].lead.refused = node[g].lead.refused
                         /\ node'[g].lead \in Leading /\ node'[g] \in NodeState
      OBVIOUS
    <2>1. node[g].lead \in Leading
      BY LeadFacts
    <2>2. node'[g].lead = [node[g].lead EXCEPT !.clock = clock(g)]
      BY <1>7
    <2>3. /\ node'[g].lead \in Leading /\ node'[g].lead.clock = clock(g)
          /\ node'[g].lead.vote = node[g].lead.vote
          /\ node'[g].lead.to = node[g].lead.to /\ node'[g].lead.refused = node[g].lead.refused
      BY <1>5, <2>1, <2>2 DEF Leading
    <2>4. node'[g] \in NodeState
      BY <1>7, <2>3, Zenon
    <2>. QED
      BY <2>3, <2>4
  <1>9. \A g \in Node : node[g].lead = NotLeading => node'[g].lead = NotLeading /\ node'[g] \in NodeState
    <2>. SUFFICES ASSUME NEW g \in Node, node[g].lead = NotLeading
                  PROVE  node'[g].lead = NotLeading /\ node'[g] \in NodeState
      OBVIOUS
    <2>1. node'[g].lead = [NotLeading EXCEPT !.clock = <<>>]
      BY <1>6, <1>7
    <2>2. node'[g].lead = NotLeading
      BY <2>1, Zenon DEF NotLeading
    <2>3. node'[g] \in NodeState
      BY <1>7, <2>2, Zenon
    <2>. QED
      BY <2>2, <2>3
  <1>10. beat' \in Event \cup {NoBeat} /\ MessageMoves
    <2>1. CASE beat = NoBeat
      BY <2>1, MessagesStay, Zenon DEF Tick
    <2>2. CASE beat # NoBeat
      <3>1. beat \in Event /\ beat.age \in Nat /\ LeaseAge \in Nat
        BY <2>2, LeaseAssumption DEF LeaseTypeOK, Event, LeaseAge
      <3>2. Older(beat.age, LeaseAge) \in 0..LeaseAge
        BY <3>1, OlderByOne, Zenon
      <3>3. beat' = [beat EXCEPT !.age = Older(beat.age, LeaseAge)]
        BY <2>2, Zenon DEF Tick
      <3>4. beat' \in Event /\ beat'.vote = beat.vote /\ beat'.target = beat.target
        BY <3>1, <3>2, <3>3 DEF Event
      <3>5. beat.vote.committed /\ beat.vote.node # beat.target /\ beat.vote \in Known
        BY <2>2 DEF VotesEarned, Known
      <3>6. \A msg \in transfers : msg.from \in Known /\ msg.from.committed /\ msg.from.node # msg.target
        BY DEF VotesEarned, Known
      <3>. QED
        BY <3>4, <3>5, <3>6, Zenon DEF MessageMoves, Tick
    <2>. QED
      BY <2>1, <2>2
  <1>11. LeaseTypeOK'
    <2>1. node' \in [Node -> NodeState]
      BY <1>2, <1>8, <1>9
    <2>2. \A g \in Node : LeadOwned(node'[g], g)
      <3>. TAKE g \in Node
      <3>1. LeadOwned(node[g], g) /\ node'[g].vote = node[g].vote
            /\ IsLeader(node'[g], g) = IsLeader(node[g], g)
        BY <1>7, Zenon DEF LeaseTypeOK
      <3>2. CASE node[g].lead = NotLeading
        <4>1. NotLeading.vote.committed = FALSE
          BY DEF NotLeading, DefaultVote
        <4>. QED
          BY <1>9, <3>1, <3>2, <4>1 DEF LeadOwned
      <3>3. CASE node[g].lead # NotLeading
        BY <1>8, <3>1, <3>3 DEF LeadOwned
      <3>. QED
        BY <3>2, <3>3
    <2>. QED
      BY <2>1, <2>2, <1>10, Zenon DEF LeaseTypeOK, Tick
  <1>12. \A g \in Node : VoteMoves(g) /\ LeaseMoves(g)
    <2>1. \A g \in Node : node[g].vote \in Known /\ node[g].lead.vote \in Known
      BY DEF Known
    <2>2. \A g \in Node : node'[g].lead.vote = node[g].lead.vote
      BY <1>8, <1>9
    <2>. QED
      BY <1>7, <2>1, <2>2, Zenon DEF VoteMoves, LeaseMoves, VoteLeq
  <1>13. \A g \in Node : IsLeader(node[g], g) => \A m \in Node : AckMoves(g, m)
    <2>. SUFFICES ASSUME NEW g \in Node, IsLeader(node[g], g), NEW m \in Node,
                         node'[g].lead.clock[m] <= Lease
                  PROVE  /\ node[g].lead.clock[m] <= Lease
                         /\ node'[m].age + node[g].lead.clock[m] <= node[m].age + node'[g].lead.clock[m]
      BY DEF AckMoves
    <2>1. /\ node[g].lead.clock[m] \in Nat /\ node'[g].lead.clock[m] = node[g].lead.clock[m] + 1
      <3>1. node[g].lead.clock[m] \in Nat
        <4>1. node[g].lead \in Leading
          BY LeaderClock
        <4>. QED
          BY <4>1, LeaseAssumption DEF Leading, Clock, LeaseAge
      <3>2. node[g].lead # NotLeading
        BY LeaderClock
      <3>. QED
        BY <1>5, <1>8, <3>1, <3>2
    <2>2. node[m].age \in Nat /\ node'[m].age \in Nat /\ node'[m].age <= node[m].age + 1
      <3>1. node[m].age \in 0..(Lease + ExpiredAge) /\ Lease + ExpiredAge \in Nat
        BY <1>3, LeaseAssumption DEF NodeState, ExpiredAge
      <3>. QED
        <4>1. node'[m].age = age(m)
          BY <1>7, Zenon
        <4>. QED
          BY <1>4, <3>1, <4>1
    <2>. QED
      BY <2>1, <2>2, LeaseAssumption
  <1>14. \A g \in Node : IsLeader(node'[g], g) => LeadMoves(g)
    <2>1. \A g \in Node : IsLeader(node[g], g) => node[g].lead # NotLeading
      BY LeaderClock
    <2>. QED
      BY <1>7, <1>8, <1>13, <2>1, Zenon DEF LeadMoves
  <1>. QED
    BY <1>10, <1>11, <1>12, <1>14, Zenon DEF Moves, Tick

\* Every step is one of those that keep the invariant.
LEMMA NextMoves ==
    ASSUME LeaseTypeOK, VotesEarned, LeaseNext PROVE Moves
  <1>1. CASE Tick
    BY <1>1, TickMoves
  <1>2. ASSUME NEW n \in Node, TickElection(n) PROVE Moves
    BY <1>2, TickElectionMoves
  <1>3. ASSUME NEW n \in Node, ElectCommand(n) PROVE Moves
    BY <1>3, ElectCommandMoves
  <1>4. ASSUME NEW n \in Node, Restart(n) PROVE Moves
    BY <1>4, RestartMoves
  <1>5. ASSUME NEW n \in Node, NEW m \in Node, NEW behind \in BOOLEAN, NEW answered \in BOOLEAN,
               RequestVote(n, m, behind, answered)
        PROVE  Moves
    BY <1>5, RequestVoteMoves
  <1>6. ASSUME NEW n \in Node, NEW m \in Node, Replicate(n, m) PROVE Moves
    BY <1>6, ReplicateMoves
  <1>7. ASSUME NEW n \in Node, NEW m \in Node, SendHeartbeat(n, m) PROVE Moves
    BY <1>7, SendHeartbeatMoves
  <1>8. ASSUME NEW n \in Node, NEW m \in Node, TriggerTransferLeader(n, m) PROVE Moves
    BY <1>8, TriggerTransferMoves
  <1>9. ASSUME NEW answered \in BOOLEAN, DeliverHeartbeat(answered) PROVE Moves
    BY <1>9, DeliverHeartbeatMoves
  <1>10. ASSUME NEW msg \in transfers, DeliverTransfer(msg) PROVE Moves
    BY <1>10, DeliverTransferMoves
  <1>. QED
    BY <1>1, <1>2, <1>3, <1>4, <1>5, <1>6, <1>7, <1>8, <1>9, <1>10 DEF LeaseNext
==============================================================================
