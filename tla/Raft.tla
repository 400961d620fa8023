-------------------------------- MODULE Raft ---------------------------------
(***************************************************************************)
(* A cluster of openraft nodes: the engines, the replication stream from   *)
(* each node to each other one (openraft/src/replication) and the network. *)
(*                                                                         *)
(* A step is one message or notification handled by RaftCore, with the     *)
(* commands it emits and the initiate_replication at the end of the event  *)
(* loop.  Commands that wait for a flush are run at once on a node that is *)
(* not leading, i.e., the IO of a follower completes within the step; the  *)
(* entries a leader appends are flushed later, by LocalIO.                 *)
(*                                                                         *)
(* The network loses, delays and reorders messages: nothing forces one to  *)
(* be received.  An append-entries request is held by the call that waits  *)
(* for its response; when the call times out it is lost, or it is delayed  *)
(* in msgs.  A vote that was granted stays in msgs, as a record of it.     *)
(***************************************************************************)
EXTENDS Engine

CONSTANTS
    Value,       \* payloads of client writes
    MaxTerm,     \* no election beyond this term
    MaxLog,      \* no client write at or beyond this log length
    MaxRestarts, \* total number of restarts
    MaxErrors,   \* total number of failed append-entries calls
    AsyncFlush,  \* FALSE: log storage flushes before append returns
    LimitedReads, \* whether limited_get_log_entries may return fewer entries
    MaxDelayed,  \* number of requests to a node that no call waits for
    Initializers, \* the nodes the application calls initialize on
    Links,       \* the pairs of nodes that are not partitioned
    Electable    \* the nodes with RuntimeConfig::enable_elect

ASSUME FiniteCluster == IsFiniteSet(Node)
\* initialize() elects in term 1.
ASSUME TermsAssumption == MaxTerm \in Nat \ {0}

VARIABLES
    eng,      \* the engine of each node
    durable,  \* the length of the flushed log of each node
    stream,   \* stream[n][m]: ReplicationCore of node n to target m
    msgs,     \* vote requests and responses, delayed append-entries requests
    restarts, errors

vars == <<eng, durable, stream, msgs, restarts, errors>>
faults == <<restarts, errors>>

Payload == Value \cup {Membership, Blank}

Leaders == {n \in Node : eng[n].leader # NoLeader}

------------------------------------------------------------------------------
\* ReplicationCore.  An action is what next_action holds, an rpc is the request
\* the task is waiting for, with the range it belongs to.

NoStream == [vote |-> DefaultVote]
NoAction == [kind |-> "none", range |-> NoRange]
SendCommitted == [kind |-> "committed", range |-> NoRange]
SendLogs(range) == [kind |-> "logs", range |-> range]
NoRpc == [kind |-> "none"]

\* What next_action holds, and ReplicationCore
Data == [kind : {"none", "committed", "logs"}, range : LogIdRange]

Rpc ==
    [kind : {"Success", "Conflict", "HigherVote"}, vote : Vote, prev : LogId, last : LogId,
     range : LogIdRange]

ReplicationCore ==
    [vote : Vote, committed : LogId, matching : LogId, action : Data, rpc : Rpc \cup {NoRpc}]

NewStream(e, m) ==
    [vote |-> e.leader.vote, committed |-> e.committed,
     matching |-> P!ValueOf(e.leader.progress, m), action |-> NoAction, rpc |-> NoRpc]

\* process_event: Replicate::Data and Replicate::Committed.
ProcessData(s, range) ==
    IF s = NoStream THEN s ELSE [s EXCEPT !.action = SendLogs(range)]

ProcessCommitted(s, c) ==
    IF s = NoStream THEN s
    ELSE [s EXCEPT !.committed = c,
                   !.action = IF @ = NoAction THEN SendCommitted ELSE @]

RemoveAllReplication == [m \in Node |-> NoStream]

SpawnReplicationStreams(n, e, streams) ==
    [m \in Node |-> IF m = n THEN streams[m] ELSE NewStream(e, m)]

\* The commands that concern the streams of node n: what comes last of each kind,
\* and after new streams, counts.
RunStreamCommands(n, e, streams) ==
    LET of(type)  == {i \in DOMAIN e.out : e.out[i].type = type}
        rebuilt   == of("RebuildReplicationStreams")
        later(I)  == {i \in I : \A j \in rebuilt : j < i}
        committed == later(of("ReplicateCommitted"))
        data(m)   == later({i \in of("Replicate") : m \in DOMAIN e.out[i].send})
        base      == IF rebuilt = {} THEN streams
                     ELSE SpawnReplicationStreams(n, e, RemoveAllReplication)
        told      == IF committed = {} THEN base
                     ELSE [m \in Node |-> ProcessCommitted(base[m], e.out[Max(committed)].committed)]
    IN  [m \in Node |-> IF data(m) = {} THEN told[m]
                        ELSE ProcessData(told[m], e.out[Max(data(m))].send[m])]

\* Vote requests and responses, and append-entries requests.  The response to one of
\* these is in the rpc of the stream that waits for it.
VoteRequest == [type : {"VoteReq"}, from : Node, to : Node, vote : Vote, last : LogId]

VoteResponseMsg ==
    [type : {"VoteResp"}, from : Node, to : Node, cand : Vote, vote : Vote, granted : BOOLEAN]

AppendEntriesRequest ==
    [type : {"AppendReq"}, from : Node, to : Node, vote : Vote, prev : LogId, commit : LogId,
     entries : Seq(Entry(Payload))]

Linked(n) == {m \in Node \ {n} : {n, m} \in Links}

\* spawn_parallel_vote_requests
ParallelVoteRequests(n, v, last) ==
    {[type |-> "VoteReq", from |-> n, to |-> m, vote |-> v, last |-> last] : m \in Linked(n)}

\* SaveVote in run_command: with a vote of its own that is saved the candidate votes
\* for itself.
OwnVoteResponse(n, v) ==
    IF v.node = n /\ ~v.committed
    THEN {[type |-> "VoteResp", from |-> n, to |-> n, cand |-> v, vote |-> v, granted |-> TRUE]}
    ELSE {}

\* The messages the commands of node n send.  A response that neither grants the
\* vote nor has a greater one is without effect.
Sent(n, cmd) ==
    CASE cmd.type = "SendVote" -> ParallelVoteRequests(n, cmd.vote, cmd.last)
      [] cmd.type = "SaveVote" -> OwnVoteResponse(n, cmd.vote)
      [] cmd.type = "Respond" /\ cmd.resp.type = "VoteResp" ->
             {r \in {cmd.resp} : r.granted \/ ~VoteLeq(r.vote, r.cand)}
      [] OTHER -> {}

\* A leader that stepped down leaves its streams behind.  They finish what they
\* are doing; one that is idle gets no more events and is as good as gone.
StopIdle(e, streams) ==
    [m \in Node |->
        IF /\ e.leader = NoLeader
           /\ streams[m] # NoStream
           /\ streams[m].action = NoAction /\ streams[m].rpc = NoRpc
        THEN NoStream ELSE streams[m]]

\* Run the commands of e on node n, whose streams are the given ones,
\* and send messages, in addition to those that are left in the network.
RunEngineCommands(n, e, streams, left) ==
    /\ eng' = [eng EXCEPT ![n] = [e EXCEPT !.out = <<>>]]
    /\ stream' = [streams EXCEPT ![n] = StopIdle(e, RunStreamCommands(n, e, @))]
    /\ msgs' = left \cup UNION {Sent(n, e.out[i]) : i \in DOMAIN e.out}

\* The end of a turn of the event loop: replicate to idle targets.
Settle(n, e) ==
    IF e.leader = NoLeader THEN e
    ELSE IF AsyncFlush THEN InitiateReplication(e, n)
    ELSE InitiateReplication(UpdateLocalProgress(e, n, LastLogId(e)), n)

\* A turn in which the handler left the engine in state e.
Run(n, e, streams, left) ==
    /\ RunEngineCommands(n, Settle(n, e), streams, left)
    /\ durable' = [durable EXCEPT ![n] =
                      IF e.leader = NoLeader \/ ~AsyncFlush THEN Len(e.log) ELSE @]

------------------------------------------------------------------------------
Init ==
    /\ eng = [n \in Node |-> Pristine]
    /\ durable = [n \in Node |-> 0]
    /\ stream = [n \in Node |-> RemoveAllReplication]
    /\ msgs = {}
    /\ restarts = 0
    /\ errors = 0

\* RaftMsg::Initialize
InitializeNode(n) ==
    /\ n \in Initializers
    /\ CheckInitialize(eng[n])
    /\ Run(n, Initialize(eng[n], n), stream, msgs)
    /\ UNCHANGED faults

\* Notification::Tick: the election timeout of a voter that is not a leader.
TickElection(n) ==
    /\ n \in Electable
    /\ eng[n].vote.term < MaxTerm
    /\ ~IsLeader(eng[n], n)
    /\ IsMember(eng[n])
    /\ Run(n, Elect(eng[n], n), stream, msgs)
    /\ UNCHANGED faults

\* RaftMsg::RequestVote.  Only an established leader has a lease.
RequestVote(n) ==
    /\ \E req \in msgs, leased \in BOOLEAN :
          /\ req.type = "VoteReq" /\ req.to = n
          /\ leased => eng[n].vote.committed
          /\ Run(n, HandleVoteReq(eng[n], n, req, leased), stream, msgs \ {req})
    /\ UNCHANGED faults

\* does_candidate_vote_match
CandidateVoteMatch(e, v) == SameLeaderId(v, e.candidate.vote)

\* Notification::VoteResponse: does_candidate_vote_match drops a response to
\* a vote the node no longer asks for.  A vote that was granted counts once.
VoteResponse(n) ==
    /\ \E resp \in msgs :
          LET match == CandidateVoteMatch(eng[n], resp.cand)
          IN  /\ resp.type = "VoteResp" /\ resp.to = n
              /\ resp.granted => match /\ resp.from \notin eng[n].candidate.granted
              /\ Run(n, IF match THEN HandleVoteResp(eng[n], n, resp) ELSE eng[n],
                     stream, IF resp.granted THEN msgs ELSE msgs \ {resp})
    /\ UNCHANGED faults

\* RaftMsg::ClientWriteRequest
ClientWrite(n) ==
    /\ eng[n].leader # NoLeader
    /\ Len(eng[n].log) < MaxLog
    /\ \E val \in Value : Run(n, LeaderAppendEntries(eng[n], n, val), stream, msgs)
    /\ UNCHANGED faults

\* Notification::LocalIO of entries this leader appended.
LocalIO(n) ==
    /\ eng[n].leader # NoLeader
    /\ \E k \in DOMAIN eng[n].log :
          /\ k >= eng[n].leader.noop.index
          /\ k > P!ValueOf(eng[n].leader.progress, n).index
          /\ RunEngineCommands(n,
                 Settle(n, UpdateLocalProgress(eng[n], n, LogIdAt(eng[n].log, k))), stream, msgs)
          /\ durable' = [durable EXCEPT ![n] = Max({@, k})]
    /\ UNCHANGED faults

\* There is room for one more request to node m that no call waits for.
CanDelay(m) ==
    Cardinality({r \in msgs : r.type = "AppendReq" /\ r.to = m}) < MaxDelayed

\* The heartbeat a leader's tick makes the worker of node m send.  A response
\* to it changes nothing but the leader's clock.
SendHeartbeat(n, m) ==
    /\ eng[n].leader # NoLeader
    /\ m \in Linked(n)
    /\ CanDelay(m)
    /\ msgs' = msgs \cup
          {[type |-> "AppendReq", from |-> n, to |-> m, vote |-> eng[n].leader.vote,
            prev |-> NoLogId, entries |-> <<>>, commit |-> eng[n].committed]}
    /\ UNCHANGED <<eng, durable, stream, faults>>

\* RaftMsg::AppendEntries for a delayed request or a heartbeat.
AppendEntriesDelayed(n) ==
    /\ \E req \in msgs :
          /\ req.type = "AppendReq" /\ req.to = n
          /\ Run(n, HandleAppendEntries(eng[n], n, req), stream, msgs \ {req})
    /\ UNCHANGED faults

------------------------------------------------------------------------------
\* ReplicationCore::main

\* The range of the request for the next action: Committed sends no entries.
RangeOf(s) ==
    IF s.action = SendCommitted THEN [prev |-> s.matching, last |-> s.matching]
    ELSE s.action.range

\* The log id the last entry of a request has, or its previous log id.
LastSent(req) ==
    IF req.entries = <<>> THEN req.prev
    ELSE NewLogId(req.entries[Len(req.entries)], req.prev.index + Len(req.entries))

\* The requests send_log_entries may make of the next action: entries are read
\* by index, from whatever the log storage of n holds by now.  A stream that
\* finds none panics, i.e., there is no request.
Requests(n, m) ==
    LET s     == stream[n][m]
        start == RangeOf(s).prev.index
        end   == Min({Len(eng[n].log), RangeOf(s).last.index})
        ends  == IF s.action = SendCommitted THEN {start}
                 ELSE IF LimitedReads THEN start + 1 .. end
                 ELSE {end} \ 0..start
    IN  {[type |-> "AppendReq", from |-> n, to |-> m, vote |-> s.vote,
          prev |-> RangeOf(s).prev, commit |-> s.committed,
          entries |-> SubSeq(eng[n].log, start + 1, k)] : k \in ends}

CanSend(s) == s # NoStream /\ s.action # NoAction /\ s.rpc = NoRpc

\* A request is sent and RaftCore of the target handles it (RaftMsg::
\* AppendEntries).  The response is on its way to the call.
StreamSend(n, m) ==
    LET s == stream[n][m]
    IN  /\ CanSend(s)
        /\ m \in Linked(n)
        /\ \E req \in Requests(n, m) :
              LET e    == HandleAppendEntries(eng[m], m, req)
                  resp == (CHOOSE c \in Range(e.out) : c.type = "Respond").resp
                  rpc  == [kind |-> resp.result, vote |-> resp.vote, prev |-> req.prev,
                           last |-> LastSent(req), range |-> s.action.range]
              IN  Run(m, e, [stream EXCEPT ![n][m].action = NoAction,
                                           ![n][m].rpc = rpc], msgs)
        /\ UNCHANGED faults

\* does_leader_vote_match, and does_replication_session_match: the session of a
\* stream is its leader's vote, and streams outlive the leader that made them.
LeaderVoteMatch(e, v) == e.leader.vote = v

SessionMatch(n, m) == LeaderVoteMatch(eng[n], stream[n][m].vote)

\* Variant of NextAction that sends the whole range again after a part of it.
NextActionWholeRange(s) ==
    LET s1 == [s EXCEPT !.rpc = NoRpc]
    IN  IF s.rpc.kind = "Success" /\ s.rpc.range # NoRange
        THEN [s1 EXCEPT !.matching = s.rpc.last,
                        !.action = IF LogIdLt(s.rpc.last, s.rpc.range.last)
                                   THEN SendLogs(s.rpc.range) ELSE @]
        ELSE IF s.rpc.kind = "HigherVote" THEN NoStream ELSE s1

\* The stream after a response: what is left of the range is sent next.
NextAction(s) ==
    LET rest == [prev |-> s.rpc.last, last |-> s.rpc.range.last]
        s1   == [s EXCEPT !.rpc = NoRpc]
    IN  IF s.rpc.kind = "Success" /\ s.rpc.range # NoRange
        THEN [s1 EXCEPT !.matching = s.rpc.last,
                        !.action = IF LogIdLt(rest.prev, rest.last) THEN SendLogs(rest) ELSE @]
        ELSE IF s.rpc.kind = "HigherVote" THEN NoStream ELSE s1

\* Notification::HigherVote
HigherVote(e, n, sender, higher) ==
    IF LeaderVoteMatch(e, sender) THEN TryUpdateVote(e, n, higher) ELSE e

\* Notification::ReplicationProgress, with the result of a request for logs
ReplicationProgress(e, n, m) ==
    LET rpc == stream[n][m].rpc
    IN  IF ~SessionMatch(n, m) \/ rpc.range = NoRange THEN e
        ELSE IF rpc.kind = "Success" THEN UpdateMatching(e, m, rpc.last)
        ELSE UpdateConflicting(e, m, rpc.prev)

\* A response and the notification it makes RaftCore handle.
StreamRecv(n, m) ==
    LET s == stream[n][m]
        e == eng[n]
    IN  /\ s # NoStream
        /\ s.rpc # NoRpc
        /\ Run(n, IF s.rpc.kind = "HigherVote" THEN HigherVote(e, n, s.vote, s.rpc.vote)
                  ELSE ReplicationProgress(e, n, m),
               [stream EXCEPT ![n][m] = NextAction(s)], msgs)
        /\ UNCHANGED faults

\* The call fails: the request is lost, or it is delayed, or the response is.
StreamError(n, m) ==
    LET s     == stream[n][m]
        range == IF s.rpc = NoRpc THEN s.action.range ELSE s.rpc.range
        e     == IF SessionMatch(n, m) /\ range # NoRange
                 THEN UpdateProgressError(eng[n], m)
                 ELSE eng[n]
        lost  == [s EXCEPT !.rpc = NoRpc, !.action = IF s.rpc = NoRpc THEN NoAction ELSE @]
        late  == IF s.rpc = NoRpc /\ m \in Linked(n) /\ CanDelay(m) THEN {{r} : r \in Requests(n, m)} ELSE {}
    IN  /\ s # NoStream
        /\ s.rpc # NoRpc \/ s.action # NoAction
        /\ errors < MaxErrors
        /\ errors' = errors + 1
        /\ \E delayed \in late \cup {{}} :
              Run(n, e, [stream EXCEPT ![n][m] = lost], msgs \cup delayed)
        /\ UNCHANGED restarts

------------------------------------------------------------------------------
\* StorageHelper::get_initial_state and Engine::startup.  The vote and what was
\* flushed of the log survive; the committed log id does if the application
\* saves it.  A node that resumes leading handles the LocalIO notification of
\* its UpdateIOProgress command in the same step.
Restart(n) ==
    /\ restarts < MaxRestarts
    /\ restarts' = restarts + 1
    /\ UNCHANGED errors
    /\ \E saved \in BOOLEAN :
          LET log  == SubSeq(eng[n].log, 1, durable[n])
              last == Min({eng[n].committed.index, durable[n]})
              e0   == [Pristine EXCEPT !.vote = eng[n].vote,
                                       !.log = log,
                                       !.committed = IF saved THEN LogIdAt(log, last) ELSE NoLogId,
                                       !.accepted = NewIOId(eng[n].vote)]
              e1   == Startup(e0, n)
              e2   == IF e1.leader = NoLeader THEN e1
                      ELSE UpdateLocalProgress(e1, n, LastLogId(e0))
          IN  Run(n, e2, [stream EXCEPT ![n] = RemoveAllReplication], msgs)

Next ==
    \/ \E n \in Node :
          \/ InitializeNode(n) \/ TickElection(n) \/ RequestVote(n) \/ VoteResponse(n)
          \/ ClientWrite(n) \/ LocalIO(n) \/ AppendEntriesDelayed(n) \/ Restart(n)
    \/ \E n, m \in Node :
          \/ SendHeartbeat(n, m) \/ StreamSend(n, m)
          \/ StreamRecv(n, m) \/ StreamError(n, m)

Spec == Init /\ [][Next]_vars

------------------------------------------------------------------------------
\* The grants of Leadership are the vote responses sent.
Votes == [n \in Node |-> eng[n].vote]
GrantsOf(M) == {<<r.from, r.cand>> : r \in {x \in M : x.type = "VoteResp" /\ x.granted}}
Grants == GrantsOf(msgs)

Election == INSTANCE Leadership WITH vote <- Votes, granted <- Grants

\* The cluster implements Leadership: its engines only grant a vote, take one over or
\* follow a leader that a quorum granted its vote to.
ImplementsLeadership == Election!Spec

\* A candidate that a quorum elected; a vote of no leader, of a candidate, or of a
\* leader that was elected.
Elected(grants, v) ==
    /\ v \in Election!Candidacy
    /\ \E Q \in SUBSET Node : P!IsMajority(Node, Q) /\ \A n \in Q : <<n, v>> \in grants

Earned(grants, v) ==
    /\ v \in Vote
    /\ IF v.committed THEN Elected(grants, ToNonCommitted(v))
       ELSE v \in Election!Candidacy \cup {DefaultVote}

\* A candidate counts nodes that granted its vote.
CandidateEarned(grants, c) ==
    \/ c = NoCandidate
    \/ /\ DOMAIN c = {"vote", "last", "granted"}
       /\ c.vote \in Election!Candidacy
       /\ c.granted \subseteq {n \in Node : <<n, c.vote>> \in grants}

EngineEarned(grants, e) ==
    /\ DOMAIN e = {"vote", "log", "committed", "accepted", "candidate", "leader", "out"}
    /\ "vote" \in DOMAIN e.leader
    /\ Earned(grants, e.vote)
    /\ Earned(grants, e.leader.vote)
    /\ CandidateEarned(grants, e.candidate)

\* The votes of replication tasks, and of the responses they got, were earned.
StreamEarned(grants, s) ==
    /\ "vote" \in DOMAIN s /\ Earned(grants, s.vote)
    /\ s # NoStream => "rpc" \in DOMAIN s /\ (s.rpc # NoRpc => Earned(grants, s.rpc.vote))

\* Whoever grants a vote has the same vote, and answers only for itself.
MessageEarned(grants, r) ==
    /\ r.type = "VoteReq" => r.vote \in Election!Candidacy
    /\ r.type = "VoteResp" =>
           /\ r.from \in Node /\ r.cand \in Election!Candidacy /\ Earned(grants, r.vote)
           /\ r.granted => r.vote = r.cand
    /\ r.type = "AppendReq" => Earned(grants, r.vote)

\* No vote is made up, wherever it is: the inductive invariant behind
\* ImplementsLeadership.
ElectionInv ==
    /\ DOMAIN eng = Node /\ DOMAIN stream = Node
    /\ \A n \in Node : EngineEarned(Grants, eng[n]) /\ eng[n].out = <<>>
    /\ \A n \in Node : DOMAIN stream[n] = Node /\ \A m \in Node : StreamEarned(Grants, stream[n][m])
    /\ \A r \in msgs : MessageEarned(Grants, r)

\* The votes that nodes have saved, leaders lead with, replication tasks send with
\* and delayed append-entries requests carry.
VotesInUse ==
    {eng[n].vote : n \in Node} \cup {eng[n].leader.vote : n \in Node}
    \cup {stream[n][m].vote : n, m \in Node} \cup {r.vote : r \in {x \in msgs : x.type = "AppendReq"}}

\* Election safety of the cluster: the votes of any two leaders, wherever they are
\* known, old or new, are equal or of leader ids in order.  RefVote::partial_cmp
\* never meets two committed votes it cannot compare, and with leader_id_std all
\* leaders of a term are the same one.
LeadersOrdered ==
    \A v, w \in VotesInUse :
        v.committed /\ w.committed => v = w \/ LeaderIdLt(v, w) \/ LeaderIdLt(w, v)

------------------------------------------------------------------------------
\* The steps that RaftCore and the replication tasks owe, and when they owe one:
\* Pending is ENABLED <<Work>>_vars.
Work ==
    \/ \E n \in Node : InitializeNode(n) \/ RequestVote(n) \/ VoteResponse(n) \/ LocalIO(n)
    \/ \E n, m \in Node : StreamSend(n, m) \/ StreamRecv(n, m)

Pending ==
    \/ \E n \in Initializers : ~IsInitialized(eng[n])
    \/ \E r \in msgs :
          \/ r.type = "VoteReq"
          \/ /\ r.type = "VoteResp"
             /\ ~r.granted \/ /\ CandidateVoteMatch(eng[r.to], r.cand)
                              /\ r.from \notin eng[r.to].candidate.granted
    \/ AsyncFlush /\ \E n \in Leaders :
          P!ValueOf(eng[n].leader.progress, n).index < Len(eng[n].log)
    \/ \E n, m \in Node : LET s == stream[n][m] IN
          /\ s # NoStream
          /\ s.rpc # NoRpc \/ (CanSend(s) /\ m \in Linked(n) /\ Requests(n, m) # {})

Delayed(n) == \E r \in msgs : r.type = "AppendReq" /\ r.to = n

\* RaftCore and the replication tasks do not stop while there is work, leaders
\* send heartbeats, and a message between nodes that are not partitioned is
\* delivered or fails.  No client has to write and nothing has to fail.
Fairness ==
    /\ []<>~Pending \/ []<><<Work>>_vars
    /\ \A n \in Node : []<>~Delayed(n) \/ []<><<AppendEntriesDelayed(n)>>_vars
    /\ \A n, m \in Node : WF_vars(SendHeartbeat(n, m))

FairSpec == Spec /\ Fairness

------------------------------------------------------------------------------
LogIds(n) == {LogIdAt(eng[n].log, i) : i \in DOMAIN eng[n].log}

TypeOK ==
    /\ \A n \in Node :
          /\ eng[n] \in EngineState(Payload) /\ eng[n].out = <<>>
          /\ durable[n] \in 0..Len(eng[n].log)
          /\ \A m \in Node : stream[n][m] \in ReplicationCore \cup {NoStream}
    /\ msgs \subseteq VoteRequest \cup VoteResponseMsg \cup AppendEntriesRequest
    /\ restarts \in 0..MaxRestarts /\ errors \in 0..MaxErrors

\* A log id identifies an entry and everything before it, on all nodes: two
\* logs that hold the same log id are the same up to it, payloads included.
LogMatching ==
    \A n, m \in Node : \A i \in DOMAIN eng[n].log \cap DOMAIN eng[m].log :
        LogIdAt(eng[n].log, i) = LogIdAt(eng[m].log, i) =>
            SubSeq(eng[n].log, 1, i) = SubSeq(eng[m].log, 1, i)

\* "Equal log id means the same log entry" (log_id/raft_log_id.rs).
LogIdIdentifiesEntry ==
    \A n, m \in Node : \A i \in DOMAIN eng[n].log \cap DOMAIN eng[m].log :
        LogIdAt(eng[n].log, i) = LogIdAt(eng[m].log, i) => eng[n].log[i] = eng[m].log[i]

\* State machine safety: what two nodes have committed, and hence applied, is
\* the same as far as both have, and every node holds the log it committed.
CommittedAgree ==
    \A n, m \in Node :
        LET k == Min({eng[n].committed.index, eng[m].committed.index})
        IN  /\ eng[n].committed = LogIdAt(eng[n].log, eng[n].committed.index)
            /\ SubSeq(eng[n].log, 1, k) = SubSeq(eng[m].log, 1, k)

\* A log that a node has committed is in the log of every leader whose vote is
\* not smaller than the vote of that node: handle_vote_req compares logs, and
\* try_commit_quorum_accepted only commits logs of the current leader, for this.
\* No node without it could win an election: those that would find its log great
\* enough in handle_vote_req are no quorum.
LeaderCompleteness ==
    \A n, m \in Node : eng[m].committed # NoLogId /\ eng[m].committed \notin LogIds(n) =>
        /\ ~(n \in Leaders /\ VoteLeq(eng[m].vote, eng[n].leader.vote))
        /\ ~P!IsQuorum(<<Node>>, {q \in Node : LogIdLeq(LastLogId(eng[q]), LastLogId(eng[n]))})

\* A response the leader will handle is for the range it holds in flight, also
\* after errors, partial sends and retries: Inflight::ack and Inflight::conflict
\* are never called without one (unreachable!) or outside of it.  A conflict is
\* never at a log the target has acknowledged, which makes the reversion branch
\* of Updater::update_conflicting unreachable.
AckInRange ==
    \A n \in Leaders, m \in Node :
        LET s == stream[n][m]
            r == eng[n].leader.repl[m].inflight
        IN  s # NoStream /\ SessionMatch(n, m) /\ s.rpc # NoRpc =>
                /\ s.rpc.kind = "Success" /\ s.rpc.range # NoRange =>
                      r # NoRange /\ LogIdLeq(r.prev, s.rpc.last) /\ LogIdLeq(s.rpc.last, r.last)
                /\ s.rpc.kind = "Conflict" /\ s.rpc.range # NoRange =>
                      /\ r # NoRange /\ s.rpc.prev = r.prev
                      /\ P!ValueOf(eng[n].leader.progress, m).index < s.rpc.prev.index

\* What the debug assertions about a leader and its progress ask for: the
\* leader's vote is not behind the node's, a range in flight starts at or after
\* what the target is known to match, the search stays within the log, and
\* responses are for what is in flight.  Votes, wherever they are, were earned,
\* and those of leaders are in order.
LeaderValid ==
    TypeOK /\ ElectionInv /\ LeadersOrdered /\ AckInRange /\ \A n \in Leaders : LET l == eng[n].leader IN
        /\ VoteLeq(eng[n].vote, l.vote)
        /\ l.last = LastLogId(eng[n])
        /\ \A m \in Node \ {n} :
              LET r == l.repl[m]
                  matching == P!ValueOf(l.progress, m)
              IN  /\ r.inflight # NoRange => LogIdLeq(matching, r.inflight.prev)
                  /\ matching.index <= r.searching_end
                  /\ r.searching_end <= Len(eng[n].log)

\* A replication progress is a fact about the target: what a leader counts as
\* matching is in the log of the target.
MatchingIsReplicated ==
    \A n \in Leaders, m \in Node :
        LET matching == P!ValueOf(eng[n].leader.progress, m)
        IN  eng[m].vote = eng[n].leader.vote /\ matching # NoLogId => matching \in LogIds(m)

\* With a leader that is not challenged and calls that fail finitely often, a
\* log the leader appends is eventually committed, and applied, on every node,
\* unless a node restarts (see HeartbeatReplicatesCommitted).
EventuallyCommitted ==
    \A i \in 1..MaxLog :
        (\E n \in Leaders : Len(eng[n].log) >= i) ~>
            (restarts > 0 \/ \A m \in Node : eng[m].committed.index >= i)

\* "When there are no new logs to replicate, the Leader sends a heartbeat to
\* replicate committed log id to followers to update their committed log id"
\* (core/heartbeat/event.rs): what a leader has committed, all nodes commit.
HeartbeatReplicatesCommitted ==
    \A i \in 1..MaxLog :
        (\E n \in Leaders : eng[n].committed.index >= i) ~>
            (Leaders = {} \/ \A m \in Node : eng[m].committed.index >= i)
==============================================================================
