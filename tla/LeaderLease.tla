----------------------------- MODULE LeaderLease -----------------------------
(***************************************************************************)
(* What openraft does by the clock: the lease of a committed vote, the     *)
(* election timer, heartbeats and the leader's quorum clock, and the       *)
(* transfer of leadership, which gives the lease up (utime.rs,             *)
(* core/heartbeat, proposer/leader.rs, and their callers in Engine and     *)
(* RaftCore).                                                              *)
(*                                                                         *)
(* Time is kept as ages: Tick makes everything one unit older, up to the   *)
(* age at which nothing is told apart any more.  A vote request or an      *)
(* append-entries and its answer are one step; a heartbeat and a transfer  *)
(* message travel for any time.  Every node is a voter.  Logs are left     *)
(* out: whether a candidate's log is behind a voter's is an input of the   *)
(* vote request.                                                           *)
(***************************************************************************)
EXTENDS RaftTypes, QuorumSet, FiniteSetsExt

CONSTANTS
    Lease,             \* TimeState::Config::leader_lease
    ElectionTimeout,   \* election_timeout
    SmallerLogTimeout, \* smaller_log_timeout
    Electable,         \* for each term, the nodes whose election timer may expire before it
    MaxDisruptions     \* how many restarts, elect commands and transfers there are

ASSUME VotersFinite == IsFiniteSet(Node)
ASSUME LeaseAssumption ==
    /\ Lease \in Nat /\ ElectionTimeout \in Nat /\ SmallerLogTimeout \in Nat
    /\ MaxDisruptions \in Nat

VARIABLES
    node,        \* the state of each node
    beat,        \* the heartbeat on the way, NoBeat if there is none
    transfers,   \* the TransferLeader messages on the way
    waived,      \* whether a restart or an elect command has ignored a lease
    disruptions  \* the number of restarts, elect commands and transfers

leaseVars == <<node, beat, transfers, waived, disruptions>>

LastTerm == Len(Electable)

\* The ages from which an acknowledgement is worth nothing, and an election is due
\* beyond the lease whatever the logs.
LeaseAge == Lease + 1
ExpiredAge == ElectionTimeout + SmallerLogTimeout + 1

Older(age, cap) == Min({age + 1, cap})

\* HeartbeatEvent on its way to a target, and the None a worker starts with
Event == [vote : Vote, target : Node, age : 0..LeaseAge]
HeartbeatEvent(v, m) == [vote |-> v, target |-> m, age |-> 0]
NoBeat == [vote |-> DefaultVote, target |-> NoNode, age |-> 0]

\* A node without engine.leader
NotLeading == [vote |-> DefaultVote, to |-> NoNode, clock |-> <<>>, refused |-> FALSE]

IsLeader(x, n) == x.vote.node = n /\ x.vote.committed

------------------------------------------------------------------------------
\* Leased<Vote>

\* update: a new vote with a lease of its own
Update(x, lease, v) == [x EXCEPT !.vote = v, !.age = 0, !.lease = lease, !.enabled = TRUE]

\* Variant of Touch: hearing of the vote again does not renew its lease.
TouchAgeless(x, lease) == [x EXCEPT !.lease = IF x.enabled THEN lease ELSE @]

\* touch: the same vote is heard of again
Touch(x, lease) == [x EXCEPT !.age = 0, !.lease = IF x.enabled THEN lease ELSE @]

DisableLease(x) == [x EXCEPT !.lease = 0, !.enabled = FALSE]

IsExpired(x, timeout) == x.age > x.lease + timeout

------------------------------------------------------------------------------
\* Leader::new with its committed_vote.  refused is for the properties: a
\* heartbeat was turned down.
NewLeader(v) ==
    [vote |-> v, to |-> NoNode, clock |-> [m \in Node |-> LeaseAge], refused |-> FALSE]

\* become_leader and establish
BecomeLeader(x) == [x EXCEPT !.lead = NewLeader(x.vote), !.granted = {}]

\* become_following
BecomeFollowing(x) == [x EXCEPT !.lead = NotLeading, !.granted = {}]

\* VoteHandler::update_vote for a vote that is not smaller than the local one.
UpdateVote(x, n, v) ==
    LET lease == IF v.committed THEN Lease ELSE 0
        y == IF VoteLt(x.vote, v) THEN Update(x, lease, v) ELSE Touch(x, lease)
    IN  IF v.node = n THEN y ELSE BecomeFollowing(y)

TryUpdateVote(x, n, v) == IF VoteLeq(x.vote, v) THEN UpdateVote(x, n, v) ELSE x

\* Engine::elect; the vote this node gives itself is counted at once.  A leader
\* keeps its leader state, with the vote it was elected by.
Elect(x, n) ==
    UpdateVote([x EXCEPT !.granted = {n}], n, NewVote(x.vote.term + 1, n))

\* ReplicationHandler::update_leader_clock with the age t of the message
UpdateLeaderClock(x, m, t) == [x EXCEPT !.lead.clock[m] = Min({@, t})]

\* Leader::last_quorum_acked_time: the newest time a quorum has acknowledged,
\* the leader itself as of now.
LastQuorumAcked(x, n) ==
    Min({a \in 0..LeaseAge : IsMajority(Node, {n} \cup {m \in Node : x.lead.clock[m] <= a})})

\* Engine::handle_vote_req
HandleVoteReq(x, n, v, behind) ==
    IF (x.vote.committed /\ ~IsExpired(x, 0)) \/ behind
    THEN [state |-> x, ok |-> FALSE]
    ELSE [state |-> TryUpdateVote(x, n, v), ok |-> VoteLeq(x.vote, v)]

\* Engine::establish_leader
EstablishLeader(x, n) == BecomeLeader(UpdateVote(x, n, ToCommitted(x.vote)))

\* Engine::handle_vote_resp of a node that is still a candidate
HandleVoteResp(x, n, m, resp, behind) ==
    IF resp.ok /\ resp.state.vote = x.vote
    THEN LET y == [x EXCEPT !.granted = @ \cup {m}]
         IN  IF IsMajority(Node, y.granted) THEN EstablishLeader(y, n) ELSE y
    ELSE TryUpdateVote([x EXCEPT !.greater = @ \/ behind], n, resp.state.vote)

------------------------------------------------------------------------------
Pristine ==
    [vote |-> DefaultVote, age |-> 0, lease |-> 0, enabled |-> TRUE,
     granted |-> {}, greater |-> FALSE, lead |-> NotLeading]

LeaseInit ==
    /\ node = [n \in Node |-> Pristine]
    /\ beat = NoBeat
    /\ transfers = {}
    /\ waived = FALSE
    /\ disruptions = 0

\* Time passes.
Tick ==
    /\ node' = [n \in Node |->
                   [node[n] EXCEPT !.age = Older(@, node[n].lease + ExpiredAge),
                                   !.lead.clock = [m \in DOMAIN @ |-> Older(@[m], LeaseAge)]]]
    /\ beat' = IF beat = NoBeat THEN NoBeat ELSE [beat EXCEPT !.age = Older(@, LeaseAge)]
    /\ UNCHANGED <<transfers, waived, disruptions>>

ElectionDue(x) ==
    IsExpired(x, ElectionTimeout + (IF x.greater THEN SmallerLogTimeout ELSE 0))

\* RaftCore::handle_tick_election
TickElection(n) ==
    LET x == node[n]
    IN  /\ x.vote.term < LastTerm /\ n \in Electable[x.vote.term + 1]
        /\ ~IsLeader(x, n)
        /\ ElectionDue(x)
        /\ node' = [node EXCEPT ![n] = Elect([x EXCEPT !.greater = FALSE], n)]
        /\ UNCHANGED <<beat, transfers, waived, disruptions>>

\* ExternalCommand::Elect, on a leader too
ElectCommand(n) ==
    /\ disruptions < MaxDisruptions
    /\ node[n].vote.term < LastTerm
    /\ node' = [node EXCEPT ![n] = Elect(@, n)]
    /\ waived' = TRUE
    /\ disruptions' = disruptions + 1
    /\ UNCHANGED <<beat, transfers>>

\* Command::SendVote to m, and the answer unless it is lost.
RequestVote(n, m, behind, answered) ==
    LET x == node[n]
        resp == HandleVoteReq(node[m], m, x.vote, behind)
    IN  /\ x.granted # {} /\ m \notin x.granted
        /\ node' = [node EXCEPT ![m] = resp.state,
                                ![n] = IF answered THEN HandleVoteResp(@, n, m, resp, behind) ELSE @]
        /\ UNCHANGED <<beat, transfers, waived, disruptions>>

\* An append-entries of the replication and the notification it ends in:
\* progress with the leader's clock, or HigherVote.
Replicate(n, m) ==
    LET x == node[n]
        v == x.lead.vote
    IN  /\ x.lead # NotLeading /\ m # n
        /\ node' = IF VoteLeq(node[m].vote, v)
                   THEN [node EXCEPT ![m] = UpdateVote(@, m, v),
                                     ![n] = UpdateLeaderClock(@, m, 0)]
                   ELSE [node EXCEPT ![n] = TryUpdateVote(@, n, node[m].vote)]
        /\ UNCHANGED <<beat, transfers, waived, disruptions>>

\* RaftCore::send_heartbeat, by the timer or by ExternalCommand::Heartbeat, to
\* one of the targets.  One heartbeat is on the way at a time.
SendHeartbeat(n, m) ==
    LET x == node[n]
    IN  /\ beat = NoBeat /\ m # n
        /\ x.lead # NotLeading
        /\ x.lead.to = NoNode
        /\ beat' = HeartbeatEvent(x.lead.vote, m)
        /\ UNCHANGED <<node, transfers, waived, disruptions>>

\* HeartbeatWorker::run and Notification::HeartbeatProgress: any answer of the
\* target acknowledges the time of sending.
DeliverHeartbeat(answered) ==
    LET n == beat.vote.node
        m == beat.target
        accepts == VoteLeq(node[m].vote, beat.vote)
        Acked(x) == [UpdateLeaderClock(x, m, beat.age) EXCEPT !.lead.refused = @ \/ ~accepts]
    IN  /\ beat # NoBeat
        /\ node' = [node EXCEPT
               ![m] = IF accepts THEN UpdateVote(@, m, beat.vote) ELSE @,
               ![n] = IF answered /\ @.lead.vote = beat.vote THEN Acked(@) ELSE @]
        /\ beat' = NoBeat
        /\ UNCHANGED <<transfers, waived, disruptions>>

\* LeaderHandler::transfer_leader
TransferTo(x, to) == [DisableLease(x) EXCEPT !.lead.to = to]

\* RaftCore::broadcast_transfer_leader: a task for each other voter, which sends
\* the message once and ignores the result.
BroadcastTransferLeader(n, v, to) == {[from |-> v, to |-> to, target |-> m] : m \in Node \ {n}}

\* ExternalCommand::TriggerTransferLeader, which only a leader takes notice of
TriggerTransferLeader(n, to) ==
    LET x == node[n]
    IN  /\ disruptions < MaxDisruptions
        /\ x.lead # NotLeading
        /\ x.vote.term < LastTerm
        /\ node' = [node EXCEPT ![n] = TransferTo(x, to)]
        /\ transfers' = transfers \cup BroadcastTransferLeader(n, x.lead.vote, to)
        /\ disruptions' = disruptions + 1
        /\ UNCHANGED <<beat, waived>>

\* RaftMsg::HandleTransferLeader
HandleTransferLeader(x, m, msg) ==
    IF x.vote # msg.from THEN x
    ELSE IF m = msg.to THEN Elect(DisableLease(x), m) ELSE DisableLease(x)

\* Raft::handle_transfer_leader: the wait for the log to be flushed ends at a
\* timeout too, and then the message is submitted all the same.
DeliverTransfer(msg) ==
    LET m == msg.target
    IN  /\ node' = [node EXCEPT ![m] = HandleTransferLeader(@, m, msg)]
        /\ transfers' = transfers \ {msg}
        /\ UNCHANGED <<beat, waived, disruptions>>

\* A crash and restart: the vote is kept, its lease is not.  A leader leads
\* again at once.
Restart(n) ==
    LET x == [Pristine EXCEPT !.vote = node[n].vote]
    IN  /\ disruptions < MaxDisruptions
        /\ node' = [node EXCEPT ![n] = IF IsLeader(x, n) THEN BecomeLeader(x) ELSE x]
        /\ beat' = IF beat.vote.node = n THEN NoBeat ELSE beat
        /\ waived' = TRUE
        /\ disruptions' = disruptions + 1
        /\ UNCHANGED transfers

LeaseNext ==
    \/ Tick
    \/ \E n \in Node : TickElection(n) \/ ElectCommand(n) \/ Restart(n)
    \/ \E n, m \in Node, behind, answered \in BOOLEAN : RequestVote(n, m, behind, answered)
    \/ \E n, m \in Node : Replicate(n, m) \/ SendHeartbeat(n, m) \/ TriggerTransferLeader(n, m)
    \/ \E answered \in BOOLEAN : DeliverHeartbeat(answered)
    \/ \E msg \in transfers : DeliverTransfer(msg)

LeaseSpec == LeaseInit /\ [][LeaseNext]_leaseVars

------------------------------------------------------------------------------
\* The state of a node; a leader has a clock for every node.
Clock == [Node -> 0..LeaseAge]
Leading == [vote : Vote, to : Node \cup {NoNode}, clock : Clock, refused : BOOLEAN]
NodeState ==
    [vote : Vote, age : 0..(Lease + ExpiredAge), lease : {0, Lease}, enabled : BOOLEAN,
     granted : SUBSET Node, greater : BOOLEAN, lead : Leading \cup {NotLeading}]

\* Leader state is of a committed vote of this node, which is the node's vote unless
\* it was told to elect itself since; whoever has such a vote has leader state.
LeadOwned(x, n) ==
    \/ x.lead = NotLeading /\ ~IsLeader(x, n)
    \/ /\ x.lead \in Leading /\ x.lead.vote.committed
       /\ x.lead.vote.node = n /\ x.vote.node = n
       /\ VoteLeq(x.lead.vote, x.vote) /\ (x.vote.committed => x.lead.vote = x.vote)

\* Every age, lease and node stays in its range, and leader state is of the node's
\* own vote.
LeaseTypeOK ==
    /\ node \in [Node -> NodeState]
    /\ \A n \in Node : LeadOwned(node[n], n)
    /\ beat \in Event \cup {NoBeat}
    /\ transfers \subseteq [from : Vote, to : Node, target : Node]
    /\ waived \in BOOLEAN
    /\ disruptions \in 0..MaxDisruptions

\* A leader other than n, elected after it.
OtherLeader(n) ==
    \E m \in Node : IsLeader(node[m], m) /\ VoteLt(node[n].vote, node[m].vote)

\* docs/protocol/leader_lease.md, "If a time point `t` is acknowledged by a
\* quorum, the leader can be sure that no other leader existed during the
\* period": unless the lease is being given up by a transfer, or was forgotten
\* in a restart or ignored by an elect command.
ClockExclusive ==
    \A n \in Node :
        /\ IsLeader(node[n], n) /\ node[n].lead.to = NoNode
        /\ ~waived
        /\ OtherLeader(n)
        => LastQuorumAcked(node[n], n) > Lease

\* The same for a leader none of whose heartbeats was answered with a higher
\* vote: what a quorum has acknowledged by accepting the leader's messages keeps
\* every other node from leading for the time of the lease (handle_vote_req,
\* handle_tick_election, update_vote and Leased).
LeaseHonoured ==
    \A n \in Node :
        /\ IsLeader(node[n], n) /\ node[n].lead.to = NoNode
        /\ ~waived /\ ~node[n].lead.refused
        /\ OtherLeader(n)
        => LastQuorumAcked(node[n], n) > Lease

------------------------------------------------------------------------------
\* LeaseHonoured is not inductive.  The votes that are around, and those whose vote
\* is no smaller than v:
Known ==
    {node[m].vote : m \in Node} \cup {node[m].lead.vote : m \in Node}
        \cup {beat.vote} \cup {msg.from : msg \in transfers}
Reached(v) == {g \in Node : VoteLeq(v, node[g].vote)}

\* A candidate counts only nodes that have moved on to its vote, nobody knows a
\* vote of a node that this node does not, and a majority moved on to the vote of
\* every leader.
VotesEarned ==
    /\ \A n \in Node : node[n].granted # {} =>
           /\ n \in node[n].granted /\ node[n].granted \subseteq Reached(node[n].vote)
           /\ node[n].vote.node = n /\ ~node[n].vote.committed
    /\ \A v \in Known : v.node # NoNode => VoteLeq(v, node[v.node].vote)
    /\ \A v \in Known : v.committed => v.node # NoNode /\ IsMajority(Node, Reached(ToNonCommitted(v)))
    /\ beat # NoBeat => beat.vote.committed /\ beat.vote.node # beat.target
    /\ \A msg \in transfers : msg.from.committed /\ msg.from.node # msg.target

\* A leader whose lease is worth something, and the nodes that have left it without
\* an acknowledgement that still counts.
Holds(n) ==
    IsLeader(node[n], n) /\ node[n].lead.to = NoNode /\ ~waived /\ ~node[n].lead.refused
Gone(n) == {g \in Node : VoteLt(node[n].vote, node[g].vote) /\ node[n].lead.clock[g] > Lease}

\* As long as no majority has left it, a node whose acknowledgement counts has the
\* leader's vote and heard of it no earlier than it acknowledged.  Only a transfer
\* takes the lease from a vote.
LeaseKept ==
    \A n \in Node : Holds(n) =>
        /\ \A m \in Node : node[n].lead.clock[m] <= Lease =>
               \/ node[m].vote = node[n].vote /\ node[m].age <= node[n].lead.clock[m]
               \/ IsMajority(Node, Gone(n))
        /\ \A m \in Node \ {n} : node[m].vote = node[n].vote =>
               node[m].enabled /\ node[m].lease = Lease
        /\ \A msg \in transfers : msg.from # node[n].vote

\* The inductive invariant behind LeaseHonoured.
LeaseInv == LeaseTypeOK /\ VotesEarned /\ LeaseKept /\ LeaseHonoured
==============================================================================
