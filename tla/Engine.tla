------------------------------- MODULE Engine --------------------------------
(***************************************************************************)
(* The Engine (openraft/src/engine): the Raft algorithm of one node, as    *)
(* pure operators from an engine state and an input to an engine state.    *)
(* Like the code it does no IO: the commands a handler emits are appended  *)
(* to the field out, and it is up to the runtime to execute them.          *)
(*                                                                         *)
(* An engine state has the fields                                          *)
(*   vote       RaftState.vote (without its lease)                         *)
(*   log        the entries behind RaftState.log_ids, with their payload   *)
(*   committed  RaftState.committed                                        *)
(*   accepted   RaftState.io_state.io_progress.accepted                    *)
(*   candidate  Engine.candidate, NoCandidate if None                      *)
(*   leader     Engine.leader, NoLeader if None                            *)
(*   out        Engine.output                                              *)
(*                                                                         *)
(* Logs are neither purged nor replaced by snapshots here, and every       *)
(* membership entry names all of Node as voters: a node is a member as     *)
(* soon as its log holds the entry written by initialize.                  *)
(***************************************************************************)
EXTENDS RaftTypes, FiniteSetsExt, Functions

CONSTANTS
    MaxPayload, \* Config::max_payload_entries
    ProbeBlock  \* the 16 of calc_mid: smaller gaps are not searched

ASSUME MaxPayloadAssumption == MaxPayload \in Nat \ {0}
ASSUME ProbeBlockAssumption == ProbeBlock \in Nat \ {0}

P == INSTANCE VecProgress WITH Lt <- LogIdLt, Bottom <- NoLogId

\* The payload of a membership entry and of the blank entry of a new leader.
Membership == "membership"
Blank == "blank"

NoCandidate == [vote |-> DefaultVote]
NoLeader == [vote |-> DefaultVote]

\* An Inflight: the log id range (prev, last] being sent; NoRange is None.
NoRange == [prev |-> NoLogId, last |-> NoLogId]

Inflight(prev, last) ==
    IF LogIdLt(prev, last) THEN [prev |-> prev, last |-> last] ELSE NoRange

\* The condition of a command that has none: the initial IO is always flushed.
NoCondition == NewIOId(DefaultVote)

Pristine ==
    [vote      |-> DefaultVote,
     log       |-> <<>>,
     committed |-> NoLogId,
     accepted  |-> NewIOId(DefaultVote),
     candidate |-> NoCandidate,
     leader    |-> NoLeader,
     out       |-> <<>>]

Push(e, cmd) == [e EXCEPT !.out = Append(@, cmd)]

\* What the parts of an engine are made of: LogIdRange, ProgressEntry (the matching
\* log id is in the progress), Candidate, Leader, Command, and Engine with RaftState.
LogIdRange == [prev : LogId, last : LogId]

ProgressEntry == [inflight : LogIdRange, searching_end : Nat]

Candidate == [vote : Vote, last : LogId, granted : SUBSET Node]

Leader ==
    [vote : Vote, last : LogId, noop : LogId, progress : P!Progress(LogId),
     repl : [Node -> ProgressEntry]]

Entry(Payload) == [term : Nat, node : Node \cup {NoNode}, val : Payload]

Command(Payload) ==
    [type : {"UpdateIOProgress"}, when : IOId, io : IOId]
    \cup [type : {"AppendInputEntries"}, vote : Vote, since : Nat, entries : Seq(Entry(Payload))]
    \cup [type : {"ReplicateCommitted"}, committed : LogId]
    \cup [type : {"Apply"}, upto : LogId]
    \cup [type : {"Replicate"}, send : UNION {[targets -> LogIdRange] : targets \in SUBSET Node}]
    \cup [type : {"RebuildReplicationStreams"}]
    \cup [type : {"SaveVote"}, vote : Vote]
    \cup [type : {"SendVote"}, vote : Vote, last : LogId]
    \cup [type : {"TruncateLog"}, since : Nat]

EngineState(Payload) ==
    [vote : Vote, log : Seq(Entry(Payload)), committed : LogId, accepted : IOId,
     candidate : Candidate \cup {NoCandidate}, leader : Leader \cup {NoLeader},
     out : Seq(Command(Payload))]

------------------------------------------------------------------------------
\* RaftState and LogStateReader

EntryOf(lid, val) == [term |-> lid.term, node |-> lid.node, val |-> val]

LogIdAt(log, i) ==
    IF i \in DOMAIN log THEN NewLogId(log[i], i) ELSE NoLogId

LastLogId(e) == LogIdAt(e.log, Len(e.log))

\* LogStateReader::has_log_id: a committed index is taken to match.
HasLogId(e, id) ==
    id.index <= e.committed.index \/ LogIdAt(e.log, id.index) = id

\* FollowingHandler::ensure_log_consecutive, which truncates if it is not.
IsConsecutive(e, prev) == prev = NoLogId \/ HasLogId(e, prev)

IsMember(e) == e.log # <<>>

IsLeading(e, n) == IsMember(e) /\ e.vote.node = n

IsLeader(e, n) == IsLeading(e, n) /\ e.vote.committed

\* LogIdList::by_last_leader: the first log id of the leader of the last one.
FirstOfLastLeader(log) ==
    LogIdAt(log, Min({Len(log)} \cup
                     {i \in DOMAIN log : /\ log[i].term = log[Len(log)].term
                                         /\ log[i].node = log[Len(log)].node}))

AcceptIO(e, io) == IF IOIdLt(e.accepted, io) THEN [e EXCEPT !.accepted = io] ELSE e

\* RaftState::update_committed and the commands that follow it: SaveCommitted
\* and Apply, which always come together, are the single command Apply.
UpdateCommitted(e, id) ==
    IF LogIdLt(e.committed, id)
    THEN Push([e EXCEPT !.committed = id], [type |-> "Apply", upto |-> id])
    ELSE e

------------------------------------------------------------------------------
\* ReplicationHandler

\* ProgressEntry::calc_mid
CalcMid(matching_next, end) ==
    matching_next + ((end - matching_next) \div ProbeBlock) * (ProbeBlock \div 2)

\* ProgressEntry::next_send: the range to send to an idle target.
NextSend(e, m) ==
    LET r     == e.leader.repl[m]
        start == CalcMid(P!ValueOf(e.leader.progress, m).index, r.searching_end)
        end   == Min({start + MaxPayload, Len(e.log)})
    IN  IF r.inflight # NoRange \/ start = end
        THEN NoRange
        ELSE Inflight(LogIdAt(e.log, start), LogIdAt(e.log, end))

\* The Replicate commands, one for each target that is idle, come together and are a
\* single command.
InitiateReplication(e, n) ==
    LET send == [m \in Node \ {n} |-> NextSend(e, m)]
        idle == {m \in Node \ {n} : send[m] # NoRange}
    IN  Push(
          [e EXCEPT
            !.leader.repl = [m \in Node |-> IF m \in idle
                                            THEN [@[m] EXCEPT !.inflight = send[m]]
                                            ELSE @[m]]],
          [type |-> "Replicate", send |-> [m \in idle |-> send[m]]])

RebuildReplicationStreams(e, n) ==
    Push([e EXCEPT !.leader.repl =
              [m \in Node |-> IF m = n THEN @[m] ELSE [@[m] EXCEPT !.inflight = NoRange]]],
         [type |-> "RebuildReplicationStreams"])

\* Variant of TryCommitQuorumAccepted without the check of the leader.
TryCommitAnyLeader(e, granted) == UpdateCommitted(e, granted)

\* try_commit_quorum_accepted: only a log of the current leader is committed.
TryCommitQuorumAccepted(e, granted) ==
    IF granted # NoLogId /\ ~IsSameLeader(e.vote, granted)
    THEN e
    ELSE IF LogIdLt(e.committed, granted)
    THEN UpdateCommitted(Push(e, [type |-> "ReplicateCommitted", committed |-> granted]), granted)
    ELSE e

\* Inflight::ack of a log in the range: what is left of it
Ack(inflight, upto) == Inflight(upto, inflight.last)

\* Updater::update_matching
EntryMatching(r, id) ==
    [inflight |-> Ack(r.inflight, id), searching_end |-> Max({r.searching_end, id.index})]

UpdateMatching(e, m, id) ==
    LET prog == P!UpdateWith(e.leader.progress, m, id)
    IN  TryCommitQuorumAccepted(
            [e EXCEPT !.leader.progress = prog, !.leader.repl[m] = EntryMatching(@, id)],
            prog.granted)

\* Updater::update_conflicting and Inflight::conflict: the log at the index of the
\* conflict does not match, the search ends before.
EntryConflicting(conflict) == [inflight |-> NoRange, searching_end |-> conflict.index - 1]

UpdateConflicting(e, m, conflict) == [e EXCEPT !.leader.repl[m] = EntryConflicting(conflict)]

\* Variant of UpdateProgressError that keeps waiting for a response.
UpdateProgressErrorKeep(e, m) == e

\* update_progress with the Err of a failed RPC: inflight is reset to retry.
UpdateProgressError(e, m) == [e EXCEPT !.leader.repl[m].inflight = NoRange]

UpdateLocalProgress(e, n, upto) ==
    IF upto = NoLogId \/ LogIdLeq(upto, P!ValueOf(e.leader.progress, n))
    THEN e
    ELSE UpdateMatching([e EXCEPT !.leader.repl[n].inflight = Inflight(NoLogId, upto)],
                        n, upto)

------------------------------------------------------------------------------
\* LeaderHandler

\* Variant of AssignLogId that carries the leader id of the last log on.
AssignLogIdOfLast(l) == NewLogId(l.last, l.last.index + 1)

\* Leader::assign_log_ids
AssignLogId(l) == NewLogId(CommittedLeaderId(l.vote), l.last.index + 1)

\* leader_append_entries of one entry.
LeaderAppendEntries(e, n, val) ==
    LET last == AssignLogId(e.leader)
        new  == EntryOf(last, val)
        e1   == AcceptIO([e EXCEPT !.leader.last = last, !.log = Append(@, new)],
                         NewLogIOId(e.leader.vote, last))
    IN  InitiateReplication(
            Push(e1, [type |-> "AppendInputEntries", vote |-> e.leader.vote,
                      since |-> last.index, entries |-> <<new>>]), n)

\* ProgressEntry::empty
EmptyEntry(end) == [inflight |-> NoRange, searching_end |-> end]

\* Leader::new: first and last are the log ids of the last leader in the log.
NewLeader(v, first, last) ==
    [vote     |-> v,
     last     |-> last,
     noop     |-> IF first # NoLogId /\ IsSameLeader(v, first)
                  THEN first
                  ELSE NewLogId(CommittedLeaderId(v), last.index + 1),
     progress |-> P!NewProgress(<<Node>>, {}),
     repl     |-> [m \in Node |-> EmptyEntry(last.index)]]

------------------------------------------------------------------------------
\* VoteHandler

\* become_leader: a vote of the same leader only updates the leader's vote; a
\* new leader proposes a blank log unless it already has a log of its own.
BecomeLeader(e, n) ==
    LET leader == NewLeader(e.vote, FirstOfLastLeader(e.log), LastLogId(e))
        io     == NewLogIOId(e.vote, leader.last)
        e1     == RebuildReplicationStreams(
                      Push(AcceptIO([e EXCEPT !.leader = leader], io),
                           [type |-> "UpdateIOProgress", when |-> NoCondition, io |-> io]), n)
    IN  IF e.leader # NoLeader /\ SameLeaderId(e.leader.vote, e.vote)
        THEN [e EXCEPT !.leader.vote = ToCommitted(e.vote)]
        ELSE IF LogIdLt(leader.last, leader.noop)
        THEN LeaderAppendEntries(e1, n, Blank)
        ELSE InitiateReplication(e1, n)

BecomeFollowing(e) == [e EXCEPT !.leader = NoLeader, !.candidate = NoCandidate]

UpdateInternalServerState(e, n) ==
    IF IsLeader(e, n) THEN BecomeLeader(e, n)
    ELSE IF IsLeading(e, n) THEN e
    ELSE BecomeFollowing(e)

\* update_vote for a vote that is accepted, i.e., VoteLeq(e.vote, v).
UpdateVote(e, n, v) ==
    UpdateInternalServerState(
        IF VoteLt(e.vote, v)
        THEN Push(AcceptIO([e EXCEPT !.vote = v], NewIOId(v)),
                  [type |-> "SaveVote", vote |-> v])
        ELSE e, n)

\* update_vote when its result is ignored.
TryUpdateVote(e, n, v) == IF VoteLeq(e.vote, v) THEN UpdateVote(e, n, v) ELSE e

------------------------------------------------------------------------------
\* FollowingHandler.  The leader vote is the committed vote e.vote.

TruncateLogs(e, since) ==
    IF since \in DOMAIN e.log
    THEN Push([e EXCEPT !.log = SubSeq(@, 1, since - 1)],
              [type |-> "TruncateLog", since |-> since])
    ELSE e

\* do_append_entries
DoAppendEntries(e, entries) ==
    Push([e EXCEPT !.log = @ \o entries],
         [type |-> "AppendInputEntries", vote |-> e.vote,
          since |-> Len(e.log) + 1, entries |-> entries])

\* Variant of FollowerAppendEntries that keeps what follows a matching range
\* and never truncates a conflict.
FollowerAppendWithoutTruncate(e, prev, entries) ==
    LET last == NewLogId(entries[Len(entries)], prev.index + Len(entries))
    IN  IF entries = <<>> \/ Len(e.log) >= prev.index + Len(entries)
        THEN e
        ELSE DoAppendEntries(AcceptIO(e, NewLogIOId(e.vote, last)),
                             SubSeq(entries, Len(e.log) - prev.index + 1, Len(entries)))

\* RaftState::first_conflicting_index, counted from 1: one more than there are
\* entries if all of them are in the log.
FirstConflictingIndex(e, prev, entries) ==
    Min({Len(entries) + 1}
        \cup {i \in DOMAIN entries : ~HasLogId(e, NewLogId(entries[i], prev.index + i))})

\* append_entries: entries from the first missing or conflicting one replace the
\* rest of the log; if there is none only the IO progress moves, after the IO
\* accepted before has flushed.
FollowerAppendEntries(e, prev, entries) ==
    LET last  == IF entries = <<>> THEN prev
                 ELSE MaxLogId(prev, NewLogId(entries[Len(entries)], prev.index + Len(entries)))
        io    == NewLogIOId(e.vote, last)
        e1    == AcceptIO(e, io)
        since == FirstConflictingIndex(e, prev, entries)
    IN  IF since <= Len(entries)
        THEN DoAppendEntries(TruncateLogs(e1, prev.index + since),
                             SubSeq(entries, since, Len(entries)))
        ELSE IF IOIdLeq(io, e.accepted)
        THEN e1
        ELSE Push(e1, [type |-> "UpdateIOProgress", when |-> e.accepted, io |-> io])

\* Variant of CommitEntries that trusts the leader's committed log id.
CommitEntriesUnbounded(e, leader_committed) ==
    UpdateCommitted(e, MinLogId(LastLogId(e), leader_committed))

\* commit_entries: never beyond what this leader has replicated to the node.
CommitEntries(e, leader_committed) ==
    UpdateCommitted(e, MinLogId(e.accepted.last, leader_committed))

------------------------------------------------------------------------------
\* Engine: the handlers the runtime calls.

\* Candidate::new
CandidateOf(v, last) == [vote |-> v, last |-> last, granted |-> {}]

NewCandidate(e, v) == [e EXCEPT !.candidate = CandidateOf(v, LastLogId(e))]

\* elect: the vote of the next term; the log does not have to be flushed.
Elect(e, n) ==
    LET v  == NewVote(e.vote.term + 1, n)
        e1 == NewCandidate(e, v)
    IN  Push(UpdateVote(e1, n, v),
             [type |-> "SendVote", vote |-> v, last |-> e1.candidate.last])

IsInitialized(e) == e.log # <<>> \/ e.vote # DefaultVote

CheckInitialize(e) == ~IsInitialized(e)

\* initialize: the membership entry is appended on behalf of the committed
\* default vote, which is never saved, then the node elects itself.
Initialize(e, n) ==
    Elect(DoAppendEntries([e EXCEPT !.vote = ToCommitted(DefaultVote)],
                          <<EntryOf([term |-> 0, node |-> NoNode], Membership)>>), n)

\* Candidate::into_leader passes its last log id for both log ids of the last leader.
IntoLeader(c) == NewLeader(ToCommitted(c.vote), c.last, c.last)

\* EstablishHandler::establish: not in place of a leader whose vote is not smaller.
Establish(e, c) ==
    IF e.leader # NoLeader /\ ~VoteLt(e.leader.vote, c.vote) THEN e
    ELSE [e EXCEPT !.leader = IntoLeader(c)]

EstablishLeader(e, n) ==
    LET c  == e.candidate
        v  == ToCommitted(c.vote)
        e1 == Establish([e EXCEPT !.candidate = NoCandidate], c)
        e2 == TryUpdateVote(RebuildReplicationStreams(e1, n), n, v)
    IN  IF e1.leader = e.leader THEN e1
        ELSE LeaderAppendEntries(AcceptIO(e2, NewLogIOId(v, c.last)), n, Blank)

Respond(when, resp) == [type |-> "Respond", when |-> when, resp |-> resp]

\* handle_vote_req and RaftCore::handle_vote_request: reject while the lease of
\* an established leader is unexpired, then compare logs, then votes.  The
\* response waits until the vote it carries has been flushed.
HandleVoteReq(e, n, req, leased) ==
    LET ok == /\ ~leased
              /\ LogIdLeq(LastLogId(e), req.last)
              /\ VoteLeq(e.vote, req.vote)
        e1 == IF ok THEN UpdateVote(e, n, req.vote) ELSE e
    IN  Push(e1, Respond(NewIOId(e1.vote),
                         [type |-> "VoteResp", from |-> n, to |-> req.from,
                          cand |-> req.vote, vote |-> e1.vote, granted |-> ok]))

\* Candidate::grant_by, and whether a quorum has granted the vote
GrantBy(c, m) == [c EXCEPT !.granted = @ \cup {m}]
IsGranted(c) == P!IsQuorum(<<Node>>, c.granted)

\* Variant of HandleVoteResp that does not wait for a quorum.
HandleVoteRespFirst(e, n, resp) ==
    IF resp.granted THEN EstablishLeader(e, n) ELSE e

\* handle_vote_resp, called for a response to the current candidate.
HandleVoteResp(e, n, resp) ==
    LET e1 == [e EXCEPT !.candidate = GrantBy(@, resp.from)]
    IN  IF resp.granted /\ resp.vote = e.candidate.vote
        THEN IF IsGranted(e1.candidate)
             THEN EstablishLeader(e1, n)
             ELSE e1
        ELSE TryUpdateVote(e, n, resp.vote)

\* handle_append_entries and RaftCore::handle_append_entries_request: a
\* success is answered when everything accepted so far has been flushed, and
\* the leader's committed log id is only looked at after a success.
HandleAppendEntries(e, n, req) ==
    LET resp(res, v) == [type |-> "AppendResp", from |-> n, to |-> req.from,
                         req |-> req, result |-> res, vote |-> v]
        e1 == UpdateVote(e, n, req.vote)
        e2 == FollowerAppendEntries(e1, req.prev, req.entries)
    IN  IF ~VoteLeq(e.vote, req.vote)
        THEN Push(e, Respond(NoCondition, resp("HigherVote", e.vote)))
        ELSE IF ~IsConsecutive(e1, req.prev)
        THEN Push(TruncateLogs(e1, req.prev.index),
                  Respond(NoCondition, resp("Conflict", req.vote)))
        ELSE CommitEntries(Push(e2, Respond(e2.accepted, resp("Success", req.vote))),
                           req.commit)

\* startup: a node whose saved vote is its own committed vote resumes leading.
Startup(e, n) == IF IsLeader(e, n) THEN UpdateInternalServerState(e, n) ELSE e
==============================================================================
