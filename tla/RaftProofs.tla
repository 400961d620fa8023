----------------------------- MODULE RaftProofs ------------------------------
(***************************************************************************)
(* The cluster implements Leadership, for every finite set of nodes, any   *)
(* number of terms, faults and delayed messages and both implementations   *)
(* of leader ids.                                                          *)
(***************************************************************************)
EXTENDS Raft, TLAPS

------------------------------------------------------------------------------
\* Sequences of commands

\* EngineOutput::push_command
LEMMA AppendElements ==
    ASSUME NEW s, s \in Seq(Range(s)), NEW x
    PROVE  /\ Append(s, x) \in Seq(Range(Append(s, x)))
           /\ Range(Append(s, x)) = Range(s) \cup {x}
  <1>. DEFINE S == Range(s) \cup {x}
              t == Append(s, x)
  <1>1. s \in Seq(S) /\ x \in S
    OBVIOUS
  <1>2. /\ t \in Seq(S) /\ Len(t) = Len(s) + 1
        /\ \A i \in 1..Len(s) : t[i] = s[i]
        /\ t[Len(s) + 1] = x
    BY <1>1
  <1>3. DOMAIN s = 1..Len(s) /\ DOMAIN t = 1..Len(t) /\ Len(s) \in Nat
    BY <1>1, <1>2
  <1>4. DOMAIN t = DOMAIN s \cup {Len(s) + 1}
    BY <1>2, <1>3
  <1>5. Range(t) = S
    <2>. HIDE DEF t
    <2>. QED
      BY <1>2, <1>3, <1>4 DEF Range
  <1>. QED
    BY <1>2, <1>5

------------------------------------------------------------------------------
\* What is no business of votes

\* An engine as far as votes go: it has its fields, and its output is a sequence.
Shaped(e) ==
    /\ DOMAIN e = {"vote", "log", "committed", "accepted", "candidate", "leader", "out"}
    /\ "vote" \in DOMAIN e.leader
    /\ e.out \in Seq(Range(e.out))

\* The commands that carry a vote to storage or to another node
VoteCommand == {"SaveVote", "SendVote", "Respond"}

\* From e to f no vote changes and none is sent.
Quiet(e, f) ==
    /\ Shaped(f)
    /\ f.vote = e.vote /\ f.candidate = e.candidate /\ f.leader.vote = e.leader.vote
    /\ Range(e.out) \subseteq Range(f.out)
    /\ \A c \in Range(f.out) \ Range(e.out) : c.type \notin VoteCommand

\* Quiet steps in a row
LEMMA QuietTransitive ==
    ASSUME NEW e, NEW f, NEW g, Quiet(e, f), Quiet(f, g)
    PROVE  Quiet(e, g)
  BY DEF Quiet

\* They end in an engine.
LEMMA QuietShaped ==
    ASSUME NEW e, NEW f, Quiet(e, f)
    PROVE  Shaped(f)
  BY DEF Quiet

\* EngineOutput::push_command leaves the state alone.
LEMMA PushShaped ==
    ASSUME NEW e, Shaped(e), NEW c
    PROVE  /\ Shaped(Push(e, c))
           /\ Push(e, c).vote = e.vote /\ Push(e, c).candidate = e.candidate
           /\ Push(e, c).leader = e.leader /\ Push(e, c).log = e.log
           /\ Range(Push(e, c).out) = Range(e.out) \cup {c}
  <1>1. Push(e, c).out = Append(e.out, c)
    BY DEF Push, Shaped
  <1>2. /\ DOMAIN Push(e, c) = DOMAIN e
        /\ Push(e, c).vote = e.vote /\ Push(e, c).candidate = e.candidate
        /\ Push(e, c).leader = e.leader /\ Push(e, c).log = e.log
    BY DEF Push, Shaped
  <1>. QED
    BY <1>1, <1>2, AppendElements DEF Shaped

\* A command that carries no vote is of no matter here.
LEMMA PushQuiet ==
    ASSUME NEW e, Shaped(e), NEW c, c.type \notin VoteCommand
    PROVE  Quiet(e, Push(e, c))
  BY PushShaped DEF Quiet

\* IOProgress::accept
LEMMA AcceptIOQuiet ==
    ASSUME NEW e, Shaped(e), NEW io
    PROVE  Quiet(e, AcceptIO(e, io))
  BY DEF Quiet, Shaped, AcceptIO

\* RaftState::update_committed
LEMMA UpdateCommittedQuiet ==
    ASSUME NEW e, Shaped(e), NEW id
    PROVE  Quiet(e, UpdateCommitted(e, id))
  <1>. DEFINE f == [e EXCEPT !.committed = id]
              c == [type |-> "Apply", upto |-> id]
  <1>1. Quiet(e, f)
    BY DEF Quiet, Shaped
  <1>2. c.type \notin VoteCommand
    BY DEF VoteCommand
  <1>3. Quiet(f, Push(f, c))
    <2>. HIDE DEF f, c
    <2>. QED
      BY <1>1, <1>2, PushQuiet, QuietShaped
  <1>4. Quiet(e, e)
    BY DEF Quiet
  <1>. QED
    BY <1>1, <1>3, <1>4, QuietTransitive DEF UpdateCommitted

\* ReplicationHandler::initiate_replication
LEMMA InitiateReplicationQuiet ==
    ASSUME NEW e, Shaped(e), NEW n
    PROVE  Quiet(e, InitiateReplication(e, n))
  <1>. DEFINE send == [m \in Node \ {n} |-> NextSend(e, m)]
              idle == {m \in Node \ {n} : send[m] # NoRange}
              repl == [m \in Node |-> IF m \in idle
                                      THEN [e.leader.repl[m] EXCEPT !.inflight = send[m]]
                                      ELSE e.leader.repl[m]]
              f == [e EXCEPT !.leader.repl = repl]
              c == [type |-> "Replicate", send |-> [m \in idle |-> send[m]]]
  <1>1. InitiateReplication(e, n) = Push(f, c)
    BY DEF InitiateReplication
  <1>2. c.type \notin VoteCommand
    BY DEF VoteCommand
  <1>. HIDE DEF repl, c
  <1>3. Quiet(e, f)
    BY DEF Quiet, Shaped
  <1>. HIDE DEF f
  <1>4. Quiet(f, Push(f, c))
    BY <1>2, <1>3, PushQuiet, QuietShaped
  <1>. QED
    BY <1>1, <1>3, <1>4, QuietTransitive

\* ReplicationHandler::rebuild_replication_streams
LEMMA RebuildQuiet ==
    ASSUME NEW e, Shaped(e), NEW n
    PROVE  Quiet(e, RebuildReplicationStreams(e, n))
  <1>. DEFINE repl == [m \in Node |-> IF m = n THEN e.leader.repl[m]
                                      ELSE [e.leader.repl[m] EXCEPT !.inflight = NoRange]]
              f == [e EXCEPT !.leader.repl = repl]
              c == [type |-> "RebuildReplicationStreams"]
  <1>1. RebuildReplicationStreams(e, n) = Push(f, c)
    BY DEF RebuildReplicationStreams
  <1>2. c.type \notin VoteCommand
    BY Zenon DEF VoteCommand
  <1>. HIDE DEF repl, c
  <1>3. Quiet(e, f)
    BY DEF Quiet, Shaped
  <1>. HIDE DEF f
  <1>4. Quiet(f, Push(f, c))
    BY <1>2, <1>3, PushQuiet, QuietShaped
  <1>. QED
    BY <1>1, <1>3, <1>4, QuietTransitive

\* ReplicationHandler::try_commit_quorum_accepted
LEMMA TryCommitQuiet ==
    ASSUME NEW e, Shaped(e), NEW granted
    PROVE  Quiet(e, TryCommitQuorumAccepted(e, granted))
  <1>. DEFINE c == [type |-> "ReplicateCommitted", committed |-> granted]
  <1>1. c.type \notin VoteCommand
    BY DEF VoteCommand
  <1>2. Quiet(e, e)
    BY DEF Quiet
  <1>. HIDE DEF c
  <1>3. Quiet(e, Push(e, c)) /\ Shaped(Push(e, c))
    BY <1>1, PushQuiet, PushShaped
  <1>4. Quiet(e, UpdateCommitted(Push(e, c), granted))
    BY <1>3, UpdateCommittedQuiet, QuietTransitive
  <1>. QED
    BY <1>2, <1>4 DEF TryCommitQuorumAccepted, c

\* ReplicationHandler::update_matching
LEMMA UpdateMatchingQuiet ==
    ASSUME NEW e, Shaped(e), NEW m, NEW id
    PROVE  Quiet(e, UpdateMatching(e, m, id))
  <1>. DEFINE prog == P!UpdateWith(e.leader.progress, m, id)
              f == [e EXCEPT !.leader.progress = prog, !.leader.repl[m] = EntryMatching(@, id)]
  <1>1. UpdateMatching(e, m, id) = TryCommitQuorumAccepted(f, prog.granted)
    BY DEF UpdateMatching
  <1>. HIDE DEF prog
  <1>2. Quiet(e, f)
    BY Zenon DEF Quiet, Shaped
  <1>. HIDE DEF f
  <1>3. Quiet(f, TryCommitQuorumAccepted(f, prog.granted))
    BY <1>2, TryCommitQuiet, QuietShaped
  <1>. QED
    BY <1>1, <1>2, <1>3, QuietTransitive

\* ReplicationHandler::update_conflicting, and update_progress with an error
LEMMA UpdateProgressQuiet ==
    ASSUME NEW e, Shaped(e), NEW m, NEW conflict
    PROVE  Quiet(e, UpdateConflicting(e, m, conflict)) /\ Quiet(e, UpdateProgressError(e, m))
  BY DEF Quiet, Shaped, UpdateConflicting, UpdateProgressError

\* ReplicationHandler::update_local_progress
LEMMA UpdateLocalProgressQuiet ==
    ASSUME NEW e, Shaped(e), NEW n, NEW upto
    PROVE  Quiet(e, UpdateLocalProgress(e, n, upto))
  <1>. DEFINE f == [e EXCEPT !.leader.repl[n].inflight = Inflight(NoLogId, upto)]
  <1>1. Quiet(e, e)
    BY DEF Quiet
  <1>2. Quiet(e, f)
    BY DEF Quiet, Shaped
  <1>3. UpdateLocalProgress(e, n, upto) = e \/ UpdateLocalProgress(e, n, upto) = UpdateMatching(f, n, upto)
    BY DEF UpdateLocalProgress
  <1>. HIDE DEF f
  <1>4. Quiet(e, UpdateMatching(f, n, upto))
    BY <1>2, UpdateMatchingQuiet, QuietTransitive, QuietShaped, Zenon
  <1>. QED
    BY <1>1, <1>3, <1>4

\* LeaderHandler::leader_append_entries
LEMMA LeaderAppendQuiet ==
    ASSUME NEW e, Shaped(e), NEW n, NEW val
    PROVE  Quiet(e, LeaderAppendEntries(e, n, val))
  <1>. DEFINE last == AssignLogId(e.leader)
              new == EntryOf(last, val)
              f == [e EXCEPT !.leader.last = last, !.log = Append(@, new)]
              io == NewLogIOId(e.leader.vote, last)
              c == [type |-> "AppendInputEntries", vote |-> e.leader.vote,
                    since |-> last.index, entries |-> <<new>>]
  <1>1. LeaderAppendEntries(e, n, val) = InitiateReplication(Push(AcceptIO(f, io), c), n)
    BY DEF LeaderAppendEntries
  <1>2. c.type \notin VoteCommand
    BY DEF VoteCommand
  <1>. HIDE DEF last, new, io, c
  <1>3. Quiet(e, f)
    BY DEF Quiet, Shaped
  <1>. HIDE DEF f
  <1>4. Quiet(e, AcceptIO(f, io))
    BY <1>3, AcceptIOQuiet, QuietTransitive, QuietShaped
  <1>5. Quiet(e, Push(AcceptIO(f, io), c))
    BY <1>2, <1>4, PushQuiet, QuietTransitive, QuietShaped
  <1>6. Quiet(e, InitiateReplication(Push(AcceptIO(f, io), c), n))
    BY <1>5, InitiateReplicationQuiet, QuietTransitive, QuietShaped, Zenon
  <1>. QED
    BY <1>1, <1>6

\* FollowingHandler::do_append_entries
LEMMA DoAppendQuiet ==
    ASSUME NEW e, Shaped(e), NEW entries
    PROVE  Quiet(e, DoAppendEntries(e, entries)) /\ DoAppendEntries(e, entries).log = e.log \o entries
  <1>. DEFINE f == [e EXCEPT !.log = @ \o entries]
              c == [type |-> "AppendInputEntries", vote |-> e.vote,
                    since |-> Len(e.log) + 1, entries |-> entries]
  <1>1. DoAppendEntries(e, entries) = Push(f, c)
    BY DEF DoAppendEntries
  <1>2. c.type \notin VoteCommand
    BY DEF VoteCommand
  <1>. HIDE DEF c
  <1>3. Quiet(e, f) /\ f.log = e.log \o entries
    BY DEF Quiet, Shaped
  <1>. HIDE DEF f
  <1>4. Quiet(e, Push(f, c)) /\ Push(f, c).log = f.log
    BY <1>2, <1>3, PushQuiet, PushShaped, QuietTransitive, QuietShaped, Zenon
  <1>. QED
    BY <1>1, <1>3, <1>4

\* LogHandler::truncate_logs
LEMMA TruncateQuiet ==
    ASSUME NEW e, Shaped(e), NEW since
    PROVE  Quiet(e, TruncateLogs(e, since))
  <1>. DEFINE f == [e EXCEPT !.log = SubSeq(@, 1, since - 1)]
              c == [type |-> "TruncateLog", since |-> since]
  <1>1. TruncateLogs(e, since) = e \/ TruncateLogs(e, since) = Push(f, c)
    BY DEF TruncateLogs
  <1>2. c.type \notin VoteCommand
    BY DEF VoteCommand
  <1>. HIDE DEF c
  <1>3. Quiet(e, f) /\ Quiet(e, e)
    BY DEF Quiet, Shaped
  <1>. HIDE DEF f
  <1>4. Quiet(e, Push(f, c))
    BY <1>2, <1>3, PushQuiet, QuietTransitive, QuietShaped, Zenon
  <1>. QED
    BY <1>1, <1>3, <1>4

\* FollowingHandler::append_entries
LEMMA FollowerAppendQuiet ==
    ASSUME NEW e, Shaped(e), NEW prev, NEW entries
    PROVE  Quiet(e, FollowerAppendEntries(e, prev, entries))
  <1>. DEFINE last  == IF entries = <<>> THEN prev
                       ELSE MaxLogId(prev, NewLogId(entries[Len(entries)], prev.index + Len(entries)))
              io    == NewLogIOId(e.vote, last)
              f     == AcceptIO(e, io)
              since == FirstConflictingIndex(e, prev, entries)
              g     == TruncateLogs(f, prev.index + since)
              c     == [type |-> "UpdateIOProgress", when |-> e.accepted, io |-> io]
  <1>1. FollowerAppendEntries(e, prev, entries) \in
            {DoAppendEntries(g, SubSeq(entries, since, Len(entries))), f, Push(f, c)}
    BY DEF FollowerAppendEntries
  <1>2. c.type \notin VoteCommand
    BY DEF VoteCommand
  <1>. HIDE DEF last, io, since, c
  <1>3. Quiet(e, f)
    BY AcceptIOQuiet
  <1>. HIDE DEF f
  <1>4. Quiet(e, g)
    BY <1>3, TruncateQuiet, QuietTransitive, QuietShaped, Zenon
  <1>. HIDE DEF g
  <1>5. Quiet(e, DoAppendEntries(g, SubSeq(entries, since, Len(entries))))
    BY <1>4, DoAppendQuiet, QuietTransitive, QuietShaped, Zenon
  <1>6. Quiet(e, Push(f, c))
    BY <1>2, <1>3, PushQuiet, QuietTransitive, QuietShaped, Zenon
  <1>. QED
    BY <1>1, <1>3, <1>5, <1>6, Zenon

\* The end of a turn: RaftCore::run_engine_commands after initiate_replication
LEMMA SettleQuiet ==
    ASSUME NEW e, Shaped(e), NEW n
    PROVE  Quiet(e, Settle(n, e))
  <1>. DEFINE f == UpdateLocalProgress(e, n, LastLogId(e))
  <1>1. Quiet(e, e)
    BY DEF Quiet
  <1>2. Quiet(e, InitiateReplication(e, n))
    BY InitiateReplicationQuiet
  <1>3. Quiet(e, f)
    BY UpdateLocalProgressQuiet
  <1>4. Quiet(e, InitiateReplication(f, n))
    <2>. HIDE DEF f
    <2>. QED
      BY <1>3, InitiateReplicationQuiet, QuietTransitive, QuietShaped
  <1>. QED
    BY <1>1, <1>2, <1>4 DEF Settle

------------------------------------------------------------------------------
\* Votes that are earned

\* What a command of node n may say when the node has vote v at the end of its turn:
\* it saves this vote, asks for one of a candidate, and answers with votes that were
\* earned, granting none but its own.
CommandEarned(grants, n, v, c) ==
    /\ c.type = "SaveVote" => c.vote = v
    /\ c.type = "SendVote" => c.vote \in Election!Candidacy
    /\ c.type = "Respond" =>
           /\ Earned(grants, c.resp.vote)
           /\ c.resp.type = "VoteResp" =>
                 /\ c.resp.from = n /\ c.resp.cand \in Election!Candidacy
                 /\ c.resp.granted => c.resp.cand = v /\ c.resp.vote = v

\* A turn of node n that started with vote v0 may end in e.
Turn(grants, n, v0, e) ==
    /\ Shaped(e)
    /\ VoteLeq(v0, e.vote)
    /\ Earned(grants, e.vote) /\ Earned(grants, e.leader.vote)
    /\ CandidateEarned(grants, e.candidate)
    /\ \A c \in Range(e.out) : CommandEarned(grants, n, e.vote, c)

\* So far the turn has sent no vote.
Plain(grants, e) ==
    /\ Shaped(e)
    /\ Earned(grants, e.leader.vote)
    /\ CandidateEarned(grants, e.candidate)
    /\ \A c \in Range(e.out) : c.type \notin VoteCommand

\* Appending, replicating and committing are no matter of votes: a turn may go on
\* with them.
LEMMA QuietTurn ==
    ASSUME NEW grants, NEW n, NEW v0, NEW e, NEW f, Turn(grants, n, v0, e), Quiet(e, f)
    PROVE  Turn(grants, n, v0, f) /\ f.vote = e.vote
  <1>1. ASSUME NEW c \in Range(f.out) PROVE CommandEarned(grants, n, f.vote, c)
    <2>1. CASE c \in Range(e.out)
      BY <2>1 DEF Turn, Quiet
    <2>2. CASE c \notin Range(e.out)
      BY <2>2 DEF Quiet, CommandEarned, VoteCommand
    <2>. QED
      BY <2>1, <2>2
  <1>. QED
    BY <1>1 DEF Turn, Quiet

\* The same before a vote is sent
LEMMA QuietPlain ==
    ASSUME NEW grants, NEW e, NEW f, Plain(grants, e), Quiet(e, f)
    PROVE  Plain(grants, f) /\ f.vote = e.vote
  BY DEF Plain, Quiet

\* During a turn there is an engine.
LEMMA TurnShaped ==
    ASSUME NEW grants, NEW n, NEW v0, NEW e, Turn(grants, n, v0, e)
    PROVE  Shaped(e)
  BY DEF Turn

LEMMA PlainShaped ==
    ASSUME NEW grants, NEW e, Plain(grants, e)
    PROVE  Shaped(e)
  BY DEF Plain

\* The votes of candidates, and of nobody, are earned.
LEMMA CandidacyEarned ==
    ASSUME NEW grants
    PROVE  /\ Earned(grants, DefaultVote) /\ Earned(grants, NoLeader.vote)
           /\ \A v \in Election!Candidacy : Earned(grants, v) /\ v \in Vote /\ ~v.committed
           /\ CandidateEarned(grants, NoCandidate)
  <1>1. DefaultVote \in Vote /\ ~DefaultVote.committed /\ NoLeader.vote = DefaultVote
    BY DEF DefaultVote, Vote, NoLeader
  <1>2. 1..MaxTerm \subseteq Nat
    BY TermsAssumption
  <1>3. \A v \in Election!Candidacy : v \in Vote /\ ~v.committed
    BY <1>2, Zenon DEF Election!Candidacy, Vote
  <1>. QED
    BY <1>1, <1>3 DEF Earned, CandidateEarned

\* A turn that has sent no vote may end there.
LEMMA PlainTurn ==
    ASSUME NEW grants, NEW n, NEW v0, NEW e, Plain(grants, e), Earned(grants, e.vote),
           VoteLeq(v0, e.vote)
    PROVE  Turn(grants, n, v0, e)
  BY DEF Plain, Turn, CommandEarned, VoteCommand

\* EngineOutput::push_command within a turn
LEMMA PushTurn ==
    ASSUME NEW grants, NEW n, NEW v0, NEW e, Turn(grants, n, v0, e), NEW c,
           CommandEarned(grants, n, e.vote, c)
    PROVE  Turn(grants, n, v0, Push(e, c)) /\ Push(e, c).vote = e.vote
  BY PushShaped DEF Turn

\* VoteHandler::become_leader: the leader has the vote of its node.
LEMMA BecomeLeaderTurn ==
    ASSUME NEW grants, NEW n, NEW v0, NEW e, Turn(grants, n, v0, e), e.vote.committed
    PROVE  Turn(grants, n, v0, BecomeLeader(e, n)) /\ BecomeLeader(e, n).vote = e.vote
  <1>. DEFINE leader == NewLeader(e.vote, FirstOfLastLeader(e.log), LastLogId(e))
              io == NewLogIOId(e.vote, leader.last)
              c == [type |-> "UpdateIOProgress", when |-> NoCondition, io |-> io]
              f0 == [e EXCEPT !.leader = leader]
              f1 == AcceptIO(f0, io)
              f2 == Push(f1, c)
              f3 == RebuildReplicationStreams(f2, n)
              g == [e EXCEPT !.leader.vote = ToCommitted(e.vote)]
  <1>1. BecomeLeader(e, n) \in {g, LeaderAppendEntries(f3, n, Blank), InitiateReplication(f3, n)}
    BY DEF BecomeLeader
  <1>2. Turn(grants, n, v0, g) /\ g.vote = e.vote
    <2>1. ToCommitted(e.vote) = e.vote
      BY Zenon DEF Turn, Earned, Vote, ToCommitted
    <2>2. Shaped(g)
      BY DEF Turn, Shaped
    <2>3. /\ g.vote = e.vote /\ g.candidate = e.candidate /\ g.out = e.out
          /\ g.leader.vote = e.vote
      BY <2>1, Zenon DEF Turn, Shaped
    <2>. HIDE DEF g
    <2>. QED
      BY <2>2, <2>3 DEF Turn
  <1>3. "vote" \in DOMAIN leader /\ leader.vote = e.vote
    BY DEF NewLeader
  <1>4. c.type \notin VoteCommand
    BY DEF VoteCommand
  <1>. HIDE DEF leader, io, c, g
  <1>5. Turn(grants, n, v0, f0) /\ f0.vote = e.vote
    <2>1. Shaped(f0)
      BY <1>3 DEF Turn, Shaped
    <2>2. f0.vote = e.vote /\ f0.candidate = e.candidate /\ f0.out = e.out /\ f0.leader = leader
      BY DEF Turn, Shaped
    <2>. HIDE DEF f0
    <2>. QED
      BY <1>3, <2>1, <2>2 DEF Turn
  <1>. HIDE DEF f0
  <1>6. Quiet(f0, f1)
    BY <1>5, AcceptIOQuiet, TurnShaped
  <1>. HIDE DEF f1
  <1>7. Quiet(f0, f2)
    BY <1>4, <1>6, PushQuiet, QuietTransitive, QuietShaped
  <1>. HIDE DEF f2
  <1>8. Quiet(f0, f3)
    BY <1>7, RebuildQuiet, QuietTransitive, QuietShaped, Zenon
  <1>. HIDE DEF f3
  <1>9. Quiet(f0, LeaderAppendEntries(f3, n, Blank)) /\ Quiet(f0, InitiateReplication(f3, n))
    BY <1>8, LeaderAppendQuiet, InitiateReplicationQuiet, QuietTransitive, QuietShaped, Zenon
  <1>10. ASSUME NEW h, Quiet(f0, h) PROVE Turn(grants, n, v0, h) /\ h.vote = e.vote
    BY <1>5, <1>10, QuietTurn
  <1>. QED
    BY <1>1, <1>2, <1>9, <1>10

\* VoteHandler::update_internal_server_state
LEMMA UpdateServerStateTurn ==
    ASSUME NEW grants, NEW n, NEW v0, NEW e, Turn(grants, n, v0, e)
    PROVE  /\ Turn(grants, n, v0, UpdateInternalServerState(e, n))
           /\ UpdateInternalServerState(e, n).vote = e.vote
  <1>1. CASE IsLeader(e, n)
    BY <1>1, BecomeLeaderTurn DEF UpdateInternalServerState, IsLeader
  <1>2. CASE ~IsLeader(e, n) /\ IsLeading(e, n)
    BY <1>2, Zenon DEF UpdateInternalServerState
  <1>3. CASE ~IsLeader(e, n) /\ ~IsLeading(e, n)
    <2>. DEFINE f == BecomeFollowing(e)
    <2>1. Shaped(f)
      BY DEF BecomeFollowing, NoLeader, Turn, Shaped
    <2>2. /\ f.vote = e.vote /\ f.out = e.out /\ f.leader = NoLeader /\ f.candidate = NoCandidate
      BY DEF BecomeFollowing, Turn, Shaped
    <2>3. UpdateInternalServerState(e, n) = f
      BY <1>3 DEF UpdateInternalServerState
    <2>. HIDE DEF f
    <2>. QED
      BY <2>1, <2>2, <2>3, CandidacyEarned, Zenon DEF Turn
  <1>. QED
    BY <1>1, <1>2, <1>3, Zenon

\* VoteHandler::update_vote: a vote is saved if it is new.
LEMMA UpdateVoteTurn ==
    ASSUME NEW grants, NEW n, NEW v0, NEW e, Plain(grants, e), NEW v, Earned(grants, v),
           VoteLeq(v0, v), VoteLeq(e.vote, v)
    PROVE  Turn(grants, n, v0, UpdateVote(e, n, v)) /\ UpdateVote(e, n, v).vote = v
  <1>1. CASE VoteLt(e.vote, v)
    <2>. DEFINE c == [type |-> "SaveVote", vote |-> v]
                f == [e EXCEPT !.vote = v]
                g == AcceptIO(f, NewIOId(v))
    <2>1. UpdateVote(e, n, v) = UpdateInternalServerState(Push(g, c), n)
      BY <1>1 DEF UpdateVote
    <2>2. CommandEarned(grants, n, v, c)
      BY DEF CommandEarned
    <2>. HIDE DEF c
    <2>3. Shaped(f)
      BY DEF Plain, Shaped
    <2>4. f.vote = v /\ f.candidate = e.candidate /\ f.out = e.out /\ f.leader = e.leader
      BY DEF Plain, Shaped
    <2>. HIDE DEF f
    <2>5. Plain(grants, g) /\ g.vote = v
      <3>1. Plain(grants, f)
        BY <2>3, <2>4 DEF Plain
      <3>2. Quiet(f, g)
        BY <2>3, AcceptIOQuiet, Zenon
      <3>. QED
        BY <2>4, <3>1, <3>2, QuietPlain
    <2>. HIDE DEF g
    <2>6. Turn(grants, n, v0, Push(g, c)) /\ Push(g, c).vote = v
      BY <2>2, <2>5, PlainTurn, PushTurn
    <2>. QED
      BY <2>1, <2>6, UpdateServerStateTurn
  <1>2. CASE ~VoteLt(e.vote, v)
    <2>1. e.vote = v
      BY <1>2 DEF VoteLeq
    <2>2. UpdateVote(e, n, v) = UpdateInternalServerState(e, n)
      BY <1>2 DEF UpdateVote
    <2>. QED
      BY <2>1, <2>2, PlainTurn, UpdateServerStateTurn
  <1>. QED
    BY <1>1, <1>2

\* The same when its result is ignored
LEMMA TryUpdateVoteTurn ==
    ASSUME NEW grants, NEW n, NEW e, Plain(grants, e), Earned(grants, e.vote),
           NEW v, Earned(grants, v)
    PROVE  Turn(grants, n, e.vote, TryUpdateVote(e, n, v))
  <1>1. CASE VoteLeq(e.vote, v)
    BY <1>1, UpdateVoteTurn DEF TryUpdateVote
  <1>2. CASE ~VoteLeq(e.vote, v)
    BY <1>2, PlainTurn, Zenon DEF TryUpdateVote, VoteLeq
  <1>. QED
    BY <1>1, <1>2, Zenon

------------------------------------------------------------------------------
\* The handlers of the engine

\* Engine::elect: the vote of the next term is greater than the one before.
LEMMA ElectTurn ==
    ASSUME NEW grants, NEW n, NEW v0, NEW e, Plain(grants, e), e.vote.term \in Nat,
           NewVote(e.vote.term + 1, n) \in Election!Candidacy,
           VoteLeq(v0, NewVote(e.vote.term + 1, n))
    PROVE  Turn(grants, n, v0, Elect(e, n))
  <1>. DEFINE v == NewVote(e.vote.term + 1, n)
              f == NewCandidate(e, v)
              c == [type |-> "SendVote", vote |-> v, last |-> f.candidate.last]
  <1>1. Elect(e, n) = Push(UpdateVote(f, n, v), c)
    BY Zenon DEF Elect
  <1>2. VoteLeq(e.vote, v)
    BY DEF NewVote, VoteLeq, VoteLt, LeaderIdLt
  <1>. HIDE DEF v
  <1>3. v \in Election!Candidacy /\ VoteLeq(v0, v)
    BY DEF v
  <1>4. Plain(grants, f) /\ f.vote = e.vote
    <2>1. CandidateEarned(grants, CandidateOf(v, LastLogId(e)))
      BY <1>3 DEF CandidateEarned, CandidateOf
    <2>2. Shaped(f)
      BY DEF Plain, Shaped, NewCandidate
    <2>3. /\ f.vote = e.vote /\ f.out = e.out /\ f.leader = e.leader
          /\ f.candidate = CandidateOf(v, LastLogId(e))
      BY DEF Plain, Shaped, NewCandidate
    <2>. HIDE DEF f
    <2>. QED
      BY <2>1, <2>2, <2>3 DEF Plain
  <1>5. CommandEarned(grants, n, v, c)
    BY <1>3, Zenon DEF CommandEarned
  <1>. HIDE DEF f, c
  <1>6. Turn(grants, n, v0, UpdateVote(f, n, v)) /\ UpdateVote(f, n, v).vote = v
    BY <1>2, <1>3, <1>4, CandidacyEarned, UpdateVoteTurn
  <1>. QED
    BY <1>1, <1>5, <1>6, PushTurn, Zenon

\* Engine::initialize: the committed default vote does not outlive the call.
LEMMA InitializeTurn ==
    ASSUME NEW grants, NEW n \in Node, NEW e, Plain(grants, e), e.vote = DefaultVote
    PROVE  Turn(grants, n, e.vote, Initialize(e, n))
  <1>. DEFINE f == [e EXCEPT !.vote = ToCommitted(DefaultVote)]
              entries == <<EntryOf([term |-> 0, node |-> NoNode], Membership)>>
              g == DoAppendEntries(f, entries)
  <1>1. Initialize(e, n) = Elect(g, n)
    BY DEF Initialize
  <1>. HIDE DEF entries
  <1>2. Shaped(f)
    BY DEF Plain, Shaped
  <1>3. /\ f.vote = ToCommitted(DefaultVote) /\ f.candidate = e.candidate /\ f.out = e.out
        /\ f.leader = e.leader
    BY DEF Plain, Shaped
  <1>. HIDE DEF f
  <1>4. Plain(grants, g) /\ g.vote = ToCommitted(DefaultVote)
    <2>1. Plain(grants, f)
      BY <1>2, <1>3, Zenon DEF Plain
    <2>2. Quiet(f, g)
      BY <1>2, DoAppendQuiet
    <2>. QED
      BY <1>3, <2>1, <2>2, QuietPlain
  <1>. HIDE DEF g
  <1>5. g.vote.term = 0
    BY <1>4 DEF ToCommitted, DefaultVote
  <1>6. NewVote(g.vote.term + 1, n) \in Election!Candidacy
    BY <1>5, TermsAssumption DEF NewVote, Election!Candidacy
  <1>7. VoteLeq(e.vote, NewVote(g.vote.term + 1, n))
    BY <1>5 DEF VoteLeq, VoteLt, LeaderIdLt, NewVote, DefaultVote
  <1>. QED
    BY <1>1, <1>4, <1>5, <1>6, <1>7, ElectTurn

\* Engine::handle_vote_req: a node that grants a vote has it.
LEMMA HandleVoteReqTurn ==
    ASSUME NEW grants, NEW n, NEW e, Plain(grants, e), Earned(grants, e.vote),
           NEW req, req.vote \in Election!Candidacy, NEW leased \in BOOLEAN
    PROVE  Turn(grants, n, e.vote, HandleVoteReq(e, n, req, leased))
  <1>. DEFINE ok == /\ ~leased
                    /\ LogIdLeq(LastLogId(e), req.last)
                    /\ VoteLeq(e.vote, req.vote)
              f == IF ok THEN UpdateVote(e, n, req.vote) ELSE e
              resp == [type |-> "VoteResp", from |-> n, to |-> req.from,
                       cand |-> req.vote, vote |-> f.vote, granted |-> ok]
              c == Respond(NewIOId(f.vote), resp)
  <1>1. HandleVoteReq(e, n, req, leased) = Push(f, c)
    BY DEF HandleVoteReq
  <1>2. VoteLeq(e.vote, e.vote) /\ Earned(grants, req.vote)
    BY CandidacyEarned, Zenon DEF VoteLeq
  <1>3. Turn(grants, n, e.vote, f) /\ (ok => f.vote = req.vote)
    <2>1. CASE ok
      BY <1>2, <2>1, UpdateVoteTurn
    <2>2. CASE ~ok
      BY <1>2, <2>2, PlainTurn, Zenon
    <2>. QED
      BY <2>1, <2>2, Zenon
  <1>4. c.type = "Respond" /\ c.resp = resp
    BY Zenon DEF Respond
  <1>5. /\ resp.type = "VoteResp" /\ resp.from = n /\ resp.cand = req.vote /\ resp.vote = f.vote
        /\ resp.granted = ok
    BY Zenon
  <1>6. resp.granted => ok
    BY <1>5, Zenon
  <1>. HIDE DEF f, resp, c, ok
  <1>7. CommandEarned(grants, n, f.vote, c)
    BY <1>3, <1>4, <1>5, <1>6, Zenon DEF CommandEarned, Turn
  <1>. QED
    BY <1>1, <1>3, <1>7, PushTurn

\* Engine::establish_leader: a candidate that a quorum granted its vote to leads with
\* the committed vote.
LEMMA EstablishLeaderTurn ==
    ASSUME NEW grants, NEW n, NEW e, Plain(grants, e), Earned(grants, e.vote),
           Elected(grants, e.candidate.vote)
    PROVE  Turn(grants, n, e.vote, EstablishLeader(e, n))
  <1>. DEFINE c == e.candidate
              v == ToCommitted(c.vote)
              f == [e EXCEPT !.candidate = NoCandidate]
              g == Establish(f, c)
              h == RebuildReplicationStreams(g, n)
              k == TryUpdateVote(h, n, v)
              l == AcceptIO(k, NewLogIOId(v, c.last))
  <1>1. EstablishLeader(e, n) \in {g, LeaderAppendEntries(l, n, Blank)}
    BY DEF EstablishLeader
  <1>2. Earned(grants, v)
    <2>1. c.vote \in Vote /\ ~c.vote.committed
      BY CandidacyEarned DEF Elected
    <2>2. ToNonCommitted(v) = c.vote /\ v \in Vote /\ v.committed
      BY <2>1, Zenon DEF ToCommitted, ToNonCommitted, Vote
    <2>. QED
      BY <2>2, Zenon DEF Earned
  <1>3. "vote" \in DOMAIN IntoLeader(c) /\ IntoLeader(c).vote = v
    BY DEF IntoLeader, NewLeader
  <1>. HIDE DEF v
  <1>4. Shaped(f)
    BY DEF Plain, Shaped
  <1>5. f.vote = e.vote /\ f.candidate = NoCandidate /\ f.out = e.out /\ f.leader = e.leader
    BY Zenon DEF Plain, Shaped
  <1>. HIDE DEF f, c
  <1>6. Plain(grants, f)
    BY <1>4, <1>5, CandidacyEarned, Zenon DEF Plain
  <1>7. Plain(grants, g) /\ g.vote = e.vote
    <2>. DEFINE x == [f EXCEPT !.leader = IntoLeader(c)]
    <2>1. Shaped(x)
      BY <1>3, <1>4 DEF Shaped
    <2>2. /\ x.vote = f.vote /\ x.candidate = f.candidate /\ x.out = f.out
          /\ x.leader = IntoLeader(c)
      BY <1>4 DEF Shaped
    <2>3. g = f \/ g = x
      BY DEF Establish
    <2>. HIDE DEF x, g
    <2>. QED
      BY <1>2, <1>3, <1>5, <1>6, <2>1, <2>2, <2>3 DEF Plain
  <1>. HIDE DEF g
  <1>8. Plain(grants, h) /\ h.vote = e.vote
    BY <1>7, RebuildQuiet, QuietPlain, PlainShaped, Zenon
  <1>. HIDE DEF h
  <1>9. Turn(grants, n, e.vote, k)
    BY <1>2, <1>8, TryUpdateVoteTurn, Zenon
  <1>. HIDE DEF k
  <1>10. Turn(grants, n, e.vote, l)
    BY <1>9, AcceptIOQuiet, QuietTurn, TurnShaped
  <1>. HIDE DEF l
  <1>11. Turn(grants, n, e.vote, LeaderAppendEntries(l, n, Blank))
    BY <1>10, LeaderAppendQuiet, QuietTurn, TurnShaped, Zenon
  <1>12. Turn(grants, n, e.vote, g)
    BY <1>7, PlainTurn, Zenon DEF VoteLeq
  <1>. QED
    BY <1>1, <1>11, <1>12

\* Engine::handle_vote_resp: grants of the candidate's vote count, and a greater vote
\* of a node that refuses is taken over.
LEMMA HandleVoteRespTurn ==
    ASSUME NEW grants, NEW n, NEW e, Plain(grants, e), Earned(grants, e.vote),
           NEW resp, resp.type = "VoteResp", MessageEarned(grants, resp),
           CandidateVoteMatch(e, resp.cand),
           resp.granted => <<resp.from, resp.cand>> \in grants
    PROVE  Turn(grants, n, e.vote, HandleVoteResp(e, n, resp))
  <1>. DEFINE c == e.candidate
              d == GrantBy(c, resp.from)
              f == [e EXCEPT !.candidate = d]
  <1>1. /\ resp.from \in Node /\ resp.cand \in Election!Candidacy
        /\ Earned(grants, resp.vote) /\ (resp.granted => resp.vote = resp.cand)
    BY Zenon DEF MessageEarned
  <1>2. CASE ~(resp.granted /\ resp.vote = e.candidate.vote)
    <2>1. HandleVoteResp(e, n, resp) = TryUpdateVote(e, n, resp.vote)
      BY <1>2 DEF HandleVoteResp
    <2>. QED
      BY <1>1, <2>1, TryUpdateVoteTurn, Zenon
  <1>3. CASE resp.granted /\ resp.vote = e.candidate.vote
    <2>1. c.vote = resp.cand /\ <<resp.from, c.vote>> \in grants
      BY <1>1, <1>3, Zenon
    <2>2. c # NoCandidate
      <3>1. DefaultVote \notin Election!Candidacy
        BY DEF DefaultVote, NoNode, Election!Candidacy
      <3>. QED
        BY <1>1, <2>1, <3>1 DEF NoCandidate
    <2>3. /\ DOMAIN c = {"vote", "last", "granted"} /\ c.vote \in Election!Candidacy
          /\ c.granted \subseteq {m \in Node : <<m, c.vote>> \in grants}
      BY <2>2 DEF Plain, CandidateEarned
    <2>4. /\ DOMAIN d = DOMAIN c /\ d.vote = c.vote
          /\ d.granted = c.granted \cup {resp.from}
      BY <2>3, Zenon DEF GrantBy
    <2>. HIDE DEF c, d
    <2>5. CandidateEarned(grants, d)
      BY <1>1, <2>1, <2>3, <2>4, Zenon DEF CandidateEarned
    <2>6. Shaped(f)
      BY DEF Plain, Shaped
    <2>7. f.vote = e.vote /\ f.candidate = d /\ f.out = e.out /\ f.leader = e.leader
      BY DEF Plain, Shaped
    <2>8. HandleVoteResp(e, n, resp) = IF IsGranted(f.candidate) THEN EstablishLeader(f, n) ELSE f
      BY <1>3, Zenon DEF HandleVoteResp, c, d
    <2>. HIDE DEF f
    <2>9. Plain(grants, f)
      BY <2>5, <2>6, <2>7, Zenon DEF Plain
    <2>10. CASE IsGranted(f.candidate)
      <3>1. P!IsMajority(Node, d.granted)
        BY <2>7, <2>10 DEF IsGranted, P!IsQuorum
      <3>2. d.granted \subseteq {m \in Node : <<m, d.vote>> \in grants}
        BY <1>1, <2>1, <2>3, <2>4
      <3>3. Elected(grants, d.vote)
        BY <2>3, <2>4, <3>1, <3>2, Zenon DEF Elected
      <3>. QED
        BY <2>7, <2>8, <2>9, <2>10, <3>3, EstablishLeaderTurn, Zenon
    <2>11. CASE ~IsGranted(f.candidate)
      BY <2>7, <2>8, <2>9, <2>11, PlainTurn, Zenon DEF VoteLeq
    <2>. QED
      BY <2>10, <2>11, Zenon
  <1>. QED
    BY <1>2, <1>3, Zenon

\* Engine::handle_append_entries: every answer carries a vote that was earned.
LEMMA HandleAppendEntriesTurn ==
    ASSUME NEW grants, NEW n, NEW e, Plain(grants, e), Earned(grants, e.vote),
           NEW req, Earned(grants, req.vote)
    PROVE  /\ Turn(grants, n, e.vote, HandleAppendEntries(e, n, req))
           /\ \E c \in Range(HandleAppendEntries(e, n, req).out) : c.type = "Respond"
  <1>. DEFINE resp(res, v) == [type |-> "AppendResp", from |-> n, to |-> req.from,
                               req |-> req, result |-> res, vote |-> v]
              f == UpdateVote(e, n, req.vote)
              g == FollowerAppendEntries(f, req.prev, req.entries)
              t == TruncateLogs(f, req.prev.index)
  <1>1. ASSUME NEW x, Turn(grants, n, e.vote, x), NEW when, NEW res, NEW v, Earned(grants, v)
        PROVE  LET y == Push(x, Respond(when, resp(res, v)))
               IN  /\ Turn(grants, n, e.vote, y)
                   /\ \E c \in Range(y.out) : c.type = "Respond"
    <2>. DEFINE c == Respond(when, resp(res, v))
    <2>1. c.type = "Respond" /\ c.resp.type = "AppendResp" /\ c.resp.vote = v
      BY Zenon DEF Respond
    <2>. HIDE DEF c
    <2>2. CommandEarned(grants, n, x.vote, c)
      BY <1>1, <2>1, Zenon DEF CommandEarned
    <2>3. Range(Push(x, c).out) = Range(x.out) \cup {c}
      BY <1>1, PushShaped, Zenon DEF Turn
    <2>. QED
      BY <1>1, <2>1, <2>2, <2>3, PushTurn, Zenon DEF c
  <1>2. CASE ~VoteLeq(e.vote, req.vote)
    <2>1. Turn(grants, n, e.vote, e)
      BY PlainTurn, Zenon DEF VoteLeq
    <2>2. HandleAppendEntries(e, n, req) = Push(e, Respond(NoCondition, resp("HigherVote", e.vote)))
      BY <1>2, Zenon DEF HandleAppendEntries
    <2>. QED
      BY <1>1, <2>1, <2>2
  <1>3. CASE VoteLeq(e.vote, req.vote)
    <2>1. Turn(grants, n, e.vote, f)
      BY <1>3, UpdateVoteTurn, Zenon
    <2>2. CASE ~IsConsecutive(f, req.prev)
      <3>1. Turn(grants, n, e.vote, t)
        BY <2>1, TruncateQuiet, QuietTurn, TurnShaped
      <3>2. HandleAppendEntries(e, n, req) = Push(t, Respond(NoCondition, resp("Conflict", req.vote)))
        BY <1>3, <2>2, Zenon DEF HandleAppendEntries
      <3>. QED
        BY <1>1, <3>1, <3>2
    <2>3. CASE IsConsecutive(f, req.prev)
      <3>. DEFINE y == Push(g, Respond(g.accepted, resp("Success", req.vote)))
      <3>1. Turn(grants, n, e.vote, g)
        BY <2>1, FollowerAppendQuiet, QuietTurn, TurnShaped
      <3>2. HandleAppendEntries(e, n, req) = CommitEntries(y, req.commit)
        BY <1>3, <2>3, Zenon DEF HandleAppendEntries
      <3>3. Turn(grants, n, e.vote, y) /\ \E c \in Range(y.out) : c.type = "Respond"
        BY <1>1, <3>1
      <3>. HIDE DEF y
      <3>4. Quiet(y, CommitEntries(y, req.commit))
        BY <3>3, UpdateCommittedQuiet, Zenon DEF CommitEntries, Turn
      <3>5. Range(y.out) \subseteq Range(CommitEntries(y, req.commit).out)
        BY <3>4, Zenon DEF Quiet
      <3>. QED
        BY <3>2, <3>3, <3>4, <3>5, QuietTurn
    <2>. QED
      BY <2>2, <2>3, Zenon
  <1>. QED
    BY <1>2, <1>3, Zenon

------------------------------------------------------------------------------
\* Turns of the event loop

\* A grant that was given stays given: what was earned by then still is.
LEMMA GrantsGrow ==
    ASSUME NEW G, NEW H, G \subseteq H
    PROVE  /\ \A v : Earned(G, v) => Earned(H, v)
           /\ \A e : EngineEarned(G, e) => EngineEarned(H, e)
           /\ \A s : StreamEarned(G, s) => StreamEarned(H, s)
           /\ \A r : MessageEarned(G, r) => MessageEarned(H, r)
  <1>1. ASSUME NEW v, Elected(G, v) PROVE Elected(H, v)
    BY <1>1 DEF Elected
  <1>2. \A v : Earned(G, v) => Earned(H, v)
    BY <1>1 DEF Earned
  <1>3. \A c : CandidateEarned(G, c) => CandidateEarned(H, c)
    BY DEF CandidateEarned
  <1>4. \A e : EngineEarned(G, e) => EngineEarned(H, e)
    BY <1>2, <1>3, Zenon DEF EngineEarned
  <1>5. \A s : StreamEarned(G, s) => StreamEarned(H, s)
    BY <1>2 DEF StreamEarned
  <1>6. \A r : MessageEarned(G, r) => MessageEarned(H, r)
    BY <1>2 DEF MessageEarned
  <1>. QED
    BY <1>2, <1>4, <1>5, <1>6, Zenon

\* RaftCore::run_command: what a command sends is earned, and a vote that is granted
\* is the one the node has.
LEMMA SentEarned ==
    ASSUME NEW grants, NEW n \in Node, NEW v, Earned(grants, v),
           NEW c, CommandEarned(grants, n, v, c), NEW r \in Sent(n, c)
    PROVE  /\ MessageEarned(grants, r)
           /\ r.type = "VoteResp" /\ r.granted => /\ r.from = n /\ r.cand = v
                                                  /\ v \in Election!Candidacy
  <1>1. CASE c.type = "SendVote"
    <2>1. PICK m \in Linked(n) :
             r = [type |-> "VoteReq", from |-> n, to |-> m, vote |-> c.vote, last |-> c.last]
      BY <1>1, Zenon DEF Sent, ParallelVoteRequests
    <2>2. r.type = "VoteReq" /\ r.vote = c.vote
      BY <2>1, Zenon
    <2>. QED
      BY <1>1, <2>2 DEF MessageEarned, CommandEarned
  <1>2. CASE c.type = "SaveVote"
    <2>1. c.vote = v /\ r \in OwnVoteResponse(n, v)
      BY <1>2, Zenon DEF Sent, CommandEarned
    <2>2. /\ v.node = n /\ ~v.committed
          /\ r = [type |-> "VoteResp", from |-> n, to |-> n, cand |-> v, vote |-> v, granted |-> TRUE]
      BY <2>1, Zenon DEF OwnVoteResponse
    <2>3. r.type = "VoteResp" /\ r.from = n /\ r.cand = v /\ r.vote = v
      BY <2>2, Zenon
    <2>4. v \in Election!Candidacy
      BY <2>2, NodeAssumption DEF Earned, DefaultVote
    <2>. QED
      BY <2>3, <2>4, Zenon DEF MessageEarned
  <1>3. CASE c.type = "Respond"
    <2>1. r = c.resp /\ r.type = "VoteResp"
      BY <1>3, Zenon DEF Sent
    <2>2. /\ Earned(grants, r.vote) /\ r.from = n /\ r.cand \in Election!Candidacy
          /\ r.granted => r.cand = v /\ r.vote = v
      BY <1>3, <2>1, Zenon DEF CommandEarned
    <2>. QED
      BY <2>1, <2>2 DEF MessageEarned
  <1>. QED
    BY <1>1, <1>2, <1>3, Zenon DEF Sent

\* The replication tasks after the commands of a turn: new ones have the vote of
\* their leader.
LEMMA StreamCommandsEarned ==
    ASSUME NEW grants, NEW n, NEW e, Earned(grants, e.leader.vote), NEW streams,
           \A m \in Node : StreamEarned(grants, streams[m]), NEW m \in Node
    PROVE  StreamEarned(grants, StopIdle(e, RunStreamCommands(n, e, streams))[m])
  <1>1. StreamEarned(grants, NoStream)
    BY CandidacyEarned, Zenon DEF NoStream, StreamEarned
  <1>2. \A k : StreamEarned(grants, NewStream(e, k))
    BY DEF NewStream, StreamEarned
  <1>3. \A s, c : StreamEarned(grants, s) => StreamEarned(grants, ProcessCommitted(s, c))
    BY DEF ProcessCommitted, StreamEarned
  <1>4. \A s, range : StreamEarned(grants, s) => StreamEarned(grants, ProcessData(s, range))
    BY Zenon DEF ProcessData, StreamEarned
  <1>. DEFINE of(type)  == {i \in DOMAIN e.out : e.out[i].type = type}
              rebuilt   == of("RebuildReplicationStreams")
              later(I)  == {i \in I : \A j \in rebuilt : j < i}
              committed == later(of("ReplicateCommitted"))
              data(k)   == later({i \in of("Replicate") : k \in DOMAIN e.out[i].send})
              base      == IF rebuilt = {} THEN streams
                           ELSE SpawnReplicationStreams(n, e, RemoveAllReplication)
              told      == IF committed = {} THEN base
                           ELSE [k \in Node |-> ProcessCommitted(base[k], e.out[Max(committed)].committed)]
              ran       == [k \in Node |-> IF data(k) = {} THEN told[k]
                                           ELSE ProcessData(told[k], e.out[Max(data(k))].send[k])]
  <1>5. RunStreamCommands(n, e, streams) = ran
    BY DEF RunStreamCommands
  <1>. HIDE DEF rebuilt, committed, data
  <1>6. StreamEarned(grants, base[m])
    <2>1. CASE rebuilt = {}
      BY <2>1, Zenon
    <2>2. CASE rebuilt # {}
      <3>1. base[m] = NoStream \/ base[m] = NewStream(e, m)
        BY <2>2 DEF SpawnReplicationStreams, RemoveAllReplication
      <3>. QED
        BY <1>1, <1>2, <3>1
    <2>. QED
      BY <2>1, <2>2, Zenon
  <1>. HIDE DEF base
  <1>7. StreamEarned(grants, told[m])
    BY <1>3, <1>6, Zenon
  <1>. HIDE DEF told
  <1>8. StreamEarned(grants, ran[m])
    BY <1>4, <1>7, Zenon
  <1>9. StopIdle(e, ran)[m] \in {NoStream, ran[m]}
    BY DEF StopIdle
  <1>. QED
    BY <1>1, <1>5, <1>8, <1>9, Zenon

\* Leadership has its own copy of the orders.
LEMMA SameOrder ==
    /\ \A a, b : Election!VoteLeq(a, b) <=> VoteLeq(a, b)
    /\ \A v : Election!ToCommitted(v) = ToCommitted(v)
    /\ Election!DefaultVote = DefaultVote
    /\ \A S : Election!IsMajority(Node, S) = P!IsMajority(Node, S)
  <1>1. \A a, b : Election!VoteLeq(a, b) <=> VoteLeq(a, b)
    BY DEF Election!VoteLeq, Election!VoteLt, Election!LeaderIdLt, VoteLeq, VoteLt, LeaderIdLt,
           Election!NoNode, NoNode
  <1>2. /\ \A v : Election!ToCommitted(v) = ToCommitted(v)
        /\ Election!DefaultVote = DefaultVote
    BY DEF Election!ToCommitted, ToCommitted, Election!DefaultVote, DefaultVote, Election!NoNode, NoNode
  <1>3. \A S : Election!IsMajority(Node, S) = P!IsMajority(Node, S)
    <2>1. \A S : P!Cardinality(S) = Election!Cardinality(S)
      BY Zenon DEF P!Cardinality, Election!Cardinality
    <2>. QED
      BY <2>1 DEF P!IsMajority, Election!IsMajority
  <1>. QED
    BY <1>1, <1>2, <1>3

\* A node that is at a turn's start has sent nothing.
LEMMA EnginePlain ==
    ASSUME ElectionInv, NEW n \in Node
    PROVE  Plain(Grants, eng[n]) /\ Earned(Grants, eng[n].vote)
  <1>1. Range(<<>>) = {} /\ <<>> \in Seq({})
    BY DEF Range
  <1>. QED
    BY <1>1, Zenon DEF ElectionInv, EngineEarned, Plain, Shaped

\* What every step has to be: the invariant holds after it, and to Leadership it is a
\* step or nothing.
Implements == ElectionInv' /\ [Election!Next]_(Election!vars)

\* What RunEngineCommands is called with: tasks and messages whose votes are earned, and
\* no grant is forgotten.
Left(streams, left) ==
    /\ DOMAIN streams = Node
    /\ \A k \in Node : DOMAIN streams[k] = Node /\ \A m \in Node : StreamEarned(Grants, streams[k][m])
    /\ \A r \in left : MessageEarned(Grants, r)
    /\ GrantsOf(left) = Grants

\* RaftCore::run_engine_commands: a turn grants the vote of its node, takes a vote over,
\* follows a leader or leaves votes alone.
LEMMA RunImplements ==
    ASSUME ElectionInv, NEW n \in Node, NEW f, Turn(Grants, n, eng[n].vote, f),
           NEW streams, NEW left, Left(streams, left), RunEngineCommands(n, f, streams, left)
    PROVE  Implements
  <1>. DEFINE sent == UNION {Sent(n, f.out[i]) : i \in DOMAIN f.out}
              v == f.vote
  <1>1. /\ eng' = [eng EXCEPT ![n] = [f EXCEPT !.out = <<>>]]
        /\ stream' = [streams EXCEPT ![n] = StopIdle(f, RunStreamCommands(n, f, streams[n]))]
        /\ msgs' = left \cup sent
    BY Zenon DEF RunEngineCommands
  <1>2. \A r \in sent :
           /\ MessageEarned(Grants, r)
           /\ r.type = "VoteResp" /\ r.granted => r.from = n /\ r.cand = v /\ v \in Election!Candidacy
    <2>. SUFFICES ASSUME NEW i \in DOMAIN f.out, NEW r \in Sent(n, f.out[i])
                  PROVE  /\ MessageEarned(Grants, r)
                         /\ r.type = "VoteResp" /\ r.granted =>
                               r.from = n /\ r.cand = v /\ v \in Election!Candidacy
      BY Zenon
    <2>1. CommandEarned(Grants, n, v, f.out[i])
      BY Zenon DEF Turn, Range
    <2>2. Earned(Grants, v)
      BY DEF Turn
    <2>. HIDE DEF v
    <2>. QED
      BY <2>1, <2>2, SentEarned
  <1>. HIDE DEF sent
  <1>3. \/ Grants' = Grants
        \/ Grants' = Grants \cup {<<n, v>>} /\ v \in Election!Candidacy
    <2>1. GrantsOf(msgs') = GrantsOf(left) \cup GrantsOf(sent)
      BY <1>1, Zenon DEF GrantsOf
    <2>2. \/ GrantsOf(sent) = {}
          \/ GrantsOf(sent) = {<<n, v>>} /\ v \in Election!Candidacy
      BY <1>2, Zenon DEF GrantsOf
    <2>3. Grants' = GrantsOf(msgs') /\ GrantsOf(left) = Grants
      BY DEF Grants, GrantsOf, Left
    <2>. QED
      BY <2>1, <2>2, <2>3
  <1>4. Grants \subseteq Grants'
    BY <1>3
  <1>5. /\ DOMAIN eng' = Node /\ DOMAIN eng = Node /\ eng'[n] = [f EXCEPT !.out = <<>>]
        /\ \A k \in Node \ {n} : eng'[k] = eng[k]
    BY <1>1 DEF ElectionInv
  <1>6. /\ DOMAIN eng'[n] = DOMAIN f /\ eng'[n].vote = v /\ eng'[n].leader = f.leader
        /\ eng'[n].candidate = f.candidate /\ eng'[n].out = <<>>
    BY <1>5, Zenon DEF Turn, Shaped
  <1>7. EngineEarned(Grants, eng'[n])
    BY <1>6 DEF Turn, Shaped, EngineEarned
  <1>8. ElectionInv'
    <2>. DEFINE G == Grants
                H == Grants'
    <2>1. \A k \in Node : EngineEarned(H, eng'[k]) /\ eng'[k].out = <<>>
      <3>1. \A k \in Node : EngineEarned(G, eng'[k]) /\ eng'[k].out = <<>>
        BY <1>5, <1>6, <1>7, Zenon DEF ElectionInv
      <3>. QED
        BY <1>4, <3>1, GrantsGrow, Zenon
    <2>2. \A k \in Node : DOMAIN stream'[k] = Node /\ \A m \in Node : StreamEarned(H, stream'[k][m])
      <3>1. ASSUME NEW m \in Node PROVE StreamEarned(G, StopIdle(f, RunStreamCommands(n, f, streams[n]))[m])
        BY StreamCommandsEarned, Zenon DEF Turn, Left
      <3>2. DOMAIN StopIdle(f, RunStreamCommands(n, f, streams[n])) = Node
        BY DEF StopIdle
      <3>3. \A k \in Node : DOMAIN stream'[k] = Node /\ \A m \in Node : StreamEarned(G, stream'[k][m])
        BY <1>1, <3>1, <3>2 DEF Left
      <3>. QED
        BY <1>4, <3>3, GrantsGrow, Zenon
    <2>3. \A r \in msgs' : MessageEarned(H, r)
      <3>1. \A r \in msgs' : MessageEarned(G, r)
        BY <1>1, <1>2 DEF Left
      <3>. QED
        BY <1>4, <3>1, GrantsGrow
    <2>4. DOMAIN stream' = Node
      BY <1>1, Zenon DEF Left
    <2>. QED
      BY <1>5, <2>1, <2>2, <2>3, <2>4, Zenon DEF ElectionInv
  <1>9. [Election!Next]_(Election!vars)
    <2>1. Votes' = [Votes EXCEPT ![n] = v] /\ Votes[n] = eng[n].vote
      BY <1>5, <1>6, Zenon DEF Votes
    <2>2. VoteLeq(Votes[n], v) /\ Earned(Grants, v) /\ Earned(Grants, Votes[n])
      BY <2>1, EnginePlain DEF Turn
    <2>. HIDE DEF v
    <2>3. CASE Grants' = Grants \cup {<<n, v>>} /\ v \in Election!Candidacy
      <3>1. Election!Grant(n, v)
        BY <2>1, <2>2, <2>3, SameOrder, Zenon DEF Election!Grant
      <3>. QED
        BY <2>3, <3>1, Zenon DEF Election!Next
    <2>4. CASE Grants' = Grants /\ v \in Election!Candidacy
      <3>1. Election!Adopt(n, v)
        BY <2>1, <2>2, <2>4, SameOrder, Zenon DEF Election!Adopt
      <3>. QED
        BY <2>4, <3>1, Zenon DEF Election!Next
    <2>5. CASE Grants' = Grants /\ v.committed
      <3>. DEFINE w == ToNonCommitted(v)
      <3>1. Elected(Grants, w) /\ w \in Election!Candidacy
        BY <2>2, <2>5, Zenon DEF Earned, Elected
      <3>2. ToCommitted(w) = v
        BY <2>2, <2>5, Zenon DEF Earned, Vote, ToCommitted, ToNonCommitted
      <3>3. Election!GrantedByQuorum(w)
        BY <3>1, SameOrder DEF Election!GrantedByQuorum, Elected
      <3>. HIDE DEF w
      <3>4. Election!Follow(n, w)
        BY <2>1, <2>2, <2>5, <3>2, <3>3, SameOrder, Zenon DEF Election!Follow
      <3>. QED
        BY <3>1, <3>4, Zenon DEF Election!Next
    <2>6. CASE Grants' = Grants /\ v = DefaultVote
      <3>1. Votes[n] = DefaultVote
        <4>1. Votes[n] \in Vote /\ Node \cup {NoNode} \subseteq Nat
          BY <2>2, NodeAssumption DEF Earned, NoNode
        <4>2. Votes[n].term \in Nat /\ Votes[n].node \in Nat
          BY <4>1 DEF Vote
        <4>. QED
          BY <2>2, <2>6, <4>2 DEF VoteLeq, VoteLt, LeaderIdLt, DefaultVote, NoNode
      <3>2. Votes' = Votes
        BY <2>1, <2>6, <3>1, Zenon DEF Votes
      <3>. QED
        BY <2>6, <3>2, Zenon DEF Election!vars
    <2>. QED
      BY <1>3, <2>2, <2>3, <2>4, <2>5, <2>6 DEF Earned
  <1>. QED
    BY <1>8, <1>9 DEF Implements

\* A turn with the initiate_replication at its end
LEMMA TurnImplements ==
    ASSUME ElectionInv, NEW n \in Node, NEW e, Turn(Grants, n, eng[n].vote, e),
           NEW streams, NEW left, Left(streams, left),
           RunEngineCommands(n, Settle(n, e), streams, left)
    PROVE  Implements
  <1>1. Turn(Grants, n, eng[n].vote, Settle(n, e))
    BY SettleQuiet, QuietTurn, TurnShaped, Zenon
  <1>. QED
    BY <1>1, RunImplements, Zenon

\* Nothing but votes that were refused, and requests, leaves the network.
LEMMA AllLeft ==
    ASSUME ElectionInv
    PROVE  /\ Left(stream, msgs)
           /\ \A r \in msgs : ~(r.type = "VoteResp" /\ r.granted) => Left(stream, msgs \ {r})
  <1>1. \A r \in msgs : ~(r.type = "VoteResp" /\ r.granted) => GrantsOf(msgs \ {r}) = Grants
    BY Zenon DEF Grants, GrantsOf
  <1>2. Left(stream, msgs)
    BY Zenon DEF Left, ElectionInv, Grants
  <1>. QED
    BY <1>1, <1>2, Zenon DEF Left

------------------------------------------------------------------------------
\* The steps of the cluster

\* RaftMsg::Initialize
LEMMA InitializeImplements ==
    ASSUME ElectionInv, NEW n \in Node, InitializeNode(n)
    PROVE  Implements
  <1>1. eng[n].vote = DefaultVote
    BY Zenon DEF InitializeNode, CheckInitialize, IsInitialized
  <1>2. Turn(Grants, n, eng[n].vote, Initialize(eng[n], n))
    BY <1>1, EnginePlain, InitializeTurn, Zenon
  <1>. QED
    BY <1>2, AllLeft, TurnImplements, Zenon DEF InitializeNode, Run

\* The election timeout, in Notification::Tick
LEMMA TickImplements ==
    ASSUME ElectionInv, NEW n \in Node, TickElection(n)
    PROVE  Implements
  <1>. DEFINE v == NewVote(eng[n].vote.term + 1, n)
  <1>1. eng[n].vote.term \in Nat /\ eng[n].vote.term < MaxTerm
    BY EnginePlain, Zenon DEF TickElection, Earned, Vote
  <1>2. v \in Election!Candidacy
    BY <1>1, TermsAssumption DEF NewVote, Election!Candidacy
  <1>3. VoteLeq(eng[n].vote, v)
    BY <1>1 DEF NewVote, VoteLeq, VoteLt, LeaderIdLt
  <1>4. Turn(Grants, n, eng[n].vote, Elect(eng[n], n))
    BY <1>1, <1>2, <1>3, EnginePlain, ElectTurn
  <1>. QED
    BY <1>4, AllLeft, TurnImplements DEF TickElection, Run

\* RaftMsg::RequestVote
LEMMA RequestVoteImplements ==
    ASSUME ElectionInv, NEW n \in Node, RequestVote(n)
    PROVE  Implements
  <1>1. PICK req \in msgs, leased \in BOOLEAN :
           /\ req.type = "VoteReq"
           /\ RunEngineCommands(n, Settle(n, HandleVoteReq(eng[n], n, req, leased)),
                                stream, msgs \ {req})
    BY Zenon DEF RequestVote, Run
  <1>2. req.vote \in Election!Candidacy
    BY <1>1, Zenon DEF ElectionInv, MessageEarned
  <1>3. Turn(Grants, n, eng[n].vote, HandleVoteReq(eng[n], n, req, leased))
    BY <1>2, EnginePlain, HandleVoteReqTurn
  <1>4. Left(stream, msgs \ {req})
    BY <1>1, AllLeft, Zenon
  <1>. QED
    BY <1>1, <1>3, <1>4, TurnImplements

\* Notification::VoteResponse
LEMMA VoteResponseImplements ==
    ASSUME ElectionInv, NEW n \in Node, VoteResponse(n)
    PROVE  Implements
  <1>1. PICK resp \in msgs :
           /\ resp.type = "VoteResp"
           /\ RunEngineCommands(n,
                  Settle(n, IF CandidateVoteMatch(eng[n], resp.cand)
                            THEN HandleVoteResp(eng[n], n, resp) ELSE eng[n]),
                  stream, IF resp.granted THEN msgs ELSE msgs \ {resp})
    BY Zenon DEF VoteResponse, Run
  <1>2. MessageEarned(Grants, resp) /\ (resp.granted => <<resp.from, resp.cand>> \in Grants)
    BY <1>1, Zenon DEF ElectionInv, Grants, GrantsOf
  <1>3. Turn(Grants, n, eng[n].vote, IF CandidateVoteMatch(eng[n], resp.cand)
                                     THEN HandleVoteResp(eng[n], n, resp) ELSE eng[n])
    <2>1. CASE CandidateVoteMatch(eng[n], resp.cand)
      BY <1>1, <1>2, <2>1, EnginePlain, HandleVoteRespTurn, Zenon
    <2>2. CASE ~CandidateVoteMatch(eng[n], resp.cand)
      BY <2>2, EnginePlain, PlainTurn, Zenon DEF VoteLeq
    <2>. QED
      BY <2>1, <2>2, Zenon
  <1>4. Left(stream, IF resp.granted THEN msgs ELSE msgs \ {resp})
    BY <1>1, AllLeft, Zenon
  <1>. QED
    BY <1>1, <1>3, <1>4, TurnImplements

\* RaftMsg::ClientWriteRequest
LEMMA ClientWriteImplements ==
    ASSUME ElectionInv, NEW n \in Node, ClientWrite(n)
    PROVE  Implements
  <1>1. PICK val \in Value :
           RunEngineCommands(n, Settle(n, LeaderAppendEntries(eng[n], n, val)), stream, msgs)
    BY Zenon DEF ClientWrite, Run
  <1>2. Turn(Grants, n, eng[n].vote, eng[n])
    BY EnginePlain, PlainTurn, Zenon DEF VoteLeq
  <1>3. Turn(Grants, n, eng[n].vote, LeaderAppendEntries(eng[n], n, val))
    BY <1>2, LeaderAppendQuiet, QuietTurn, TurnShaped, Zenon
  <1>. QED
    BY <1>1, <1>3, AllLeft, TurnImplements, Zenon

\* Notification::LocalIO
LEMMA LocalIOImplements ==
    ASSUME ElectionInv, NEW n \in Node, LocalIO(n)
    PROVE  Implements
  <1>1. PICK k \in DOMAIN eng[n].log :
           RunEngineCommands(n, Settle(n, UpdateLocalProgress(eng[n], n, LogIdAt(eng[n].log, k))),
                             stream, msgs)
    BY Zenon DEF LocalIO
  <1>2. Turn(Grants, n, eng[n].vote, eng[n])
    BY EnginePlain, PlainTurn, Zenon DEF VoteLeq
  <1>3. Turn(Grants, n, eng[n].vote, UpdateLocalProgress(eng[n], n, LogIdAt(eng[n].log, k)))
    BY <1>2, UpdateLocalProgressQuiet, QuietTurn, TurnShaped
  <1>. QED
    BY <1>1, <1>3, AllLeft, TurnImplements, Zenon

\* RaftMsg::AppendEntries of a heartbeat or a delayed request
LEMMA AppendEntriesImplements ==
    ASSUME ElectionInv, NEW n \in Node, AppendEntriesDelayed(n)
    PROVE  Implements
  <1>1. PICK req \in msgs :
           /\ req.type = "AppendReq"
           /\ RunEngineCommands(n, Settle(n, HandleAppendEntries(eng[n], n, req)), stream, msgs \ {req})
    BY Zenon DEF AppendEntriesDelayed, Run
  <1>2. Earned(Grants, req.vote)
    BY <1>1, Zenon DEF ElectionInv, MessageEarned
  <1>3. Turn(Grants, n, eng[n].vote, HandleAppendEntries(eng[n], n, req))
    BY <1>2, EnginePlain, HandleAppendEntriesTurn, Zenon
  <1>4. Left(stream, msgs \ {req})
    BY <1>1, AllLeft, Zenon
  <1>. QED
    BY <1>1, <1>3, <1>4, TurnImplements, Zenon

\* The leader's tick: the heartbeat has the vote of the leader.
LEMMA HeartbeatImplements ==
    ASSUME ElectionInv, NEW n \in Node, NEW m \in Node, SendHeartbeat(n, m)
    PROVE  Implements
  <1>. DEFINE r == [type |-> "AppendReq", from |-> n, to |-> m, vote |-> eng[n].leader.vote,
                    prev |-> NoLogId, entries |-> <<>>, commit |-> eng[n].committed]
  <1>1. msgs' = msgs \cup {r} /\ eng' = eng /\ stream' = stream
    BY Zenon DEF SendHeartbeat
  <1>2. r.type = "AppendReq" /\ r.vote = eng[n].leader.vote
    BY Zenon
  <1>. HIDE DEF r
  <1>3. MessageEarned(Grants, r)
    BY <1>2, Zenon DEF ElectionInv, EngineEarned, MessageEarned
  <1>4. Grants' = Grants
    BY <1>1, <1>2, Zenon DEF Grants, GrantsOf
  <1>5. ElectionInv'
    BY <1>1, <1>3, <1>4, Zenon DEF ElectionInv
  <1>6. Votes' = Votes
    BY <1>1, Zenon DEF Votes
  <1>. QED
    BY <1>4, <1>5, <1>6, Zenon DEF Implements, Election!vars

\* One replication task is replaced, and maybe a request is delayed.
LEMMA StreamLeft ==
    ASSUME ElectionInv, NEW n \in Node, NEW m \in Node, NEW s, StreamEarned(Grants, s),
           NEW late, \A r \in late : MessageEarned(Grants, r) /\ r.type = "AppendReq"
    PROVE  Left([stream EXCEPT ![n][m] = s], msgs \cup late)
  <1>. DEFINE streams == [stream EXCEPT ![n][m] = s]
  <1>1. /\ DOMAIN streams = Node
        /\ \A k \in Node : DOMAIN streams[k] = Node
              /\ \A l \in Node : StreamEarned(Grants, streams[k][l])
    BY DEF ElectionInv
  <1>2. GrantsOf(msgs \cup late) = Grants
    BY Zenon DEF Grants, GrantsOf
  <1>. QED
    BY <1>1, <1>2, Zenon DEF Left, ElectionInv

\* ReplicationCore::send_log_entries: a request has the vote of its session.
LEMMA RequestsEarned ==
    ASSUME ElectionInv, NEW n \in Node, NEW m \in Node, NEW req \in Requests(n, m)
    PROVE  /\ req.type = "AppendReq" /\ Earned(Grants, req.vote)
           /\ MessageEarned(Grants, req)
  <1>1. req.type = "AppendReq" /\ req.vote = stream[n][m].vote
    BY DEF Requests
  <1>2. Earned(Grants, stream[n][m].vote)
    BY DEF ElectionInv, StreamEarned
  <1>. QED
    BY <1>1, <1>2, Zenon DEF MessageEarned

\* A request of a replication task and its handling by the target
LEMMA StreamSendImplements ==
    ASSUME ElectionInv, NEW n \in Node, NEW m \in Node, StreamSend(n, m)
    PROVE  Implements
  <1>. DEFINE s == stream[n][m]
              e(req) == HandleAppendEntries(eng[m], m, req)
              resp(req) == (CHOOSE c \in Range(e(req).out) : c.type = "Respond").resp
              rpc(req) == [kind |-> resp(req).result, vote |-> resp(req).vote, prev |-> req.prev,
                           last |-> LastSent(req), range |-> s.action.range]
              sends(req) == [stream EXCEPT ![n][m].action = NoAction, ![n][m].rpc = rpc(req)]
              new(req) == [s EXCEPT !.action = NoAction, !.rpc = rpc(req)]
  <1>1. PICK req \in Requests(n, m) : RunEngineCommands(m, Settle(m, e(req)), sends(req), msgs)
    BY Zenon DEF StreamSend, Run
  <1>2. s # NoStream
    BY DEF StreamSend, CanSend
  <1>3. Earned(Grants, req.vote)
    BY RequestsEarned, Zenon
  <1>4. /\ Turn(Grants, m, eng[m].vote, e(req))
        /\ \E c \in Range(e(req).out) : c.type = "Respond"
    BY <1>3, EnginePlain, HandleAppendEntriesTurn
  <1>5. Earned(Grants, resp(req).vote)
    <2>. DEFINE c == CHOOSE x \in Range(e(req).out) : x.type = "Respond"
    <2>. HIDE DEF e
    <2>1. c \in Range(e(req).out) /\ c.type = "Respond"
      BY <1>4
    <2>. HIDE DEF c
    <2>2. Earned(Grants, c.resp.vote)
      BY <1>4, <2>1, Zenon DEF Turn, CommandEarned
    <2>. QED
      BY <2>2, Zenon DEF c
  <1>6. rpc(req).vote = resp(req).vote
    BY Zenon
  <1>. HIDE DEF rpc, resp, e
  <1>7. StreamEarned(Grants, s)
    BY DEF ElectionInv
  <1>8. StreamEarned(Grants, new(req))
    <2>. HIDE DEF s
    <2>. QED
      BY <1>2, <1>5, <1>6, <1>7, Zenon DEF StreamEarned
  <1>9. sends(req) = [stream EXCEPT ![n][m] = new(req)]
    BY Zenon DEF ElectionInv
  <1>. HIDE DEF new, sends
  <1>10. Left([stream EXCEPT ![n][m] = new(req)], msgs \cup {})
    BY <1>8, StreamLeft, Zenon
  <1>11. Left(sends(req), msgs)
    <2>1. msgs \cup {} = msgs
      BY Zenon
    <2>. QED
      BY <1>9, <1>10, <2>1, Zenon
  <1>. QED
    BY <1>1, <1>4, <1>11, TurnImplements, Zenon

\* The response, Notification::HigherVote and Notification::ReplicationProgress
LEMMA StreamRecvImplements ==
    ASSUME ElectionInv, NEW n \in Node, NEW m \in Node, StreamRecv(n, m)
    PROVE  Implements
  <1>. DEFINE s == stream[n][m]
              e == eng[n]
              f == IF s.rpc.kind = "HigherVote" THEN HigherVote(e, n, s.vote, s.rpc.vote)
                   ELSE ReplicationProgress(e, n, m)
  <1>1. /\ s # NoStream /\ s.rpc # NoRpc
        /\ RunEngineCommands(n, Settle(n, f), [stream EXCEPT ![n][m] = NextAction(s)], msgs)
    BY Zenon DEF StreamRecv, Run
  <1>2. StreamEarned(Grants, s) /\ Earned(Grants, s.rpc.vote)
    BY <1>1, Zenon DEF ElectionInv, StreamEarned
  <1>3. Plain(Grants, e) /\ Earned(Grants, e.vote) /\ Turn(Grants, n, e.vote, e)
    BY EnginePlain, PlainTurn, Zenon DEF VoteLeq
  <1>4. Turn(Grants, n, e.vote, f)
    <2>1. Turn(Grants, n, e.vote, HigherVote(e, n, s.vote, s.rpc.vote))
      <3>. HIDE DEF e, s
      <3>. QED
        BY <1>2, <1>3, TryUpdateVoteTurn, Zenon DEF HigherVote
    <2>2. Turn(Grants, n, e.vote, ReplicationProgress(e, n, m))
      <3>1. ReplicationProgress(e, n, m) \in
               {e, UpdateMatching(e, m, s.rpc.last), UpdateConflicting(e, m, s.rpc.prev)}
        BY Zenon DEF ReplicationProgress
      <3>2. Quiet(e, UpdateMatching(e, m, s.rpc.last)) /\ Quiet(e, UpdateConflicting(e, m, s.rpc.prev))
        <4>. HIDE DEF e, s
        <4>. QED
          BY <1>3, UpdateMatchingQuiet, UpdateProgressQuiet, Zenon DEF Turn
      <3>. QED
        BY <1>3, <3>1, <3>2, QuietTurn
    <2>. QED
      BY <2>1, <2>2, Zenon
  <1>5. StreamEarned(Grants, NextAction(s))
    <2>. HIDE DEF s
    <2>. QED
      BY <1>1, <1>2, CandidacyEarned, Zenon DEF NextAction, StreamEarned, NoStream
  <1>6. Left([stream EXCEPT ![n][m] = NextAction(s)], msgs \cup {})
    BY <1>5, StreamLeft, Zenon
  <1>7. msgs \cup {} = msgs
    BY Zenon
  <1>. QED
    BY <1>1, <1>4, <1>6, <1>7, TurnImplements, Zenon

\* A call that fails, with a request that is lost or delayed
LEMMA StreamErrorImplements ==
    ASSUME ElectionInv, NEW n \in Node, NEW m \in Node, StreamError(n, m)
    PROVE  Implements
  <1>. DEFINE s     == stream[n][m]
              range == IF s.rpc = NoRpc THEN s.action.range ELSE s.rpc.range
              e     == IF SessionMatch(n, m) /\ range # NoRange
                       THEN UpdateProgressError(eng[n], m)
                       ELSE eng[n]
              lost  == [s EXCEPT !.rpc = NoRpc, !.action = IF s.rpc = NoRpc THEN NoAction ELSE @]
  <1>1. /\ s # NoStream
        /\ \E delayed : /\ delayed \subseteq Requests(n, m)
                        /\ RunEngineCommands(n, Settle(n, e), [stream EXCEPT ![n][m] = lost], msgs \cup delayed)
    BY Zenon DEF StreamError, Run
  <1>2. PICK delayed :
           /\ delayed \subseteq Requests(n, m)
           /\ RunEngineCommands(n, Settle(n, e), [stream EXCEPT ![n][m] = lost], msgs \cup delayed)
    BY <1>1, Zenon
  <1>3. \A r \in delayed : MessageEarned(Grants, r) /\ r.type = "AppendReq"
    BY <1>2, RequestsEarned, Zenon
  <1>4. Turn(Grants, n, eng[n].vote, eng[n])
    BY EnginePlain, PlainTurn, Zenon DEF VoteLeq
  <1>5. Turn(Grants, n, eng[n].vote, e)
    BY <1>4, UpdateProgressQuiet, QuietTurn, TurnShaped, Zenon
  <1>6. StreamEarned(Grants, s)
    BY DEF ElectionInv
  <1>7. StreamEarned(Grants, lost)
    <2>. HIDE DEF s
    <2>. QED
      BY <1>1, <1>6, Zenon DEF StreamEarned
  <1>. HIDE DEF lost, e
  <1>8. Left([stream EXCEPT ![n][m] = lost], msgs \cup delayed)
    BY <1>3, <1>7, StreamLeft, Zenon
  <1>. QED
    BY <1>2, <1>5, <1>8, TurnImplements, Zenon

\* Engine::startup with the vote that was saved
LEMMA RestartImplements ==
    ASSUME ElectionInv, NEW n \in Node, Restart(n)
    PROVE  Implements
  <1>. DEFINE log == SubSeq(eng[n].log, 1, durable[n])
              last == Min({eng[n].committed.index, durable[n]})
              e0(saved) == [Pristine EXCEPT !.vote = eng[n].vote,
                                            !.log = log,
                                            !.committed = IF saved THEN LogIdAt(log, last) ELSE NoLogId,
                                            !.accepted = NewIOId(eng[n].vote)]
              e1(saved) == Startup(e0(saved), n)
              e2(saved) == IF e1(saved).leader = NoLeader THEN e1(saved)
                           ELSE UpdateLocalProgress(e1(saved), n, LastLogId(e0(saved)))
              streams == [stream EXCEPT ![n] = RemoveAllReplication]
  <1>1. PICK saved \in BOOLEAN : RunEngineCommands(n, Settle(n, e2(saved)), streams, msgs)
    BY Zenon DEF Restart, Run
  <1>. DEFINE f0 == e0(saved)
              f1 == e1(saved)
              f2 == e2(saved)
  <1>2. Plain(Grants, f0) /\ f0.vote = eng[n].vote
    <2>1. Range(<<>>) = {} /\ <<>> \in Seq({})
      BY DEF Range
    <2>2. /\ DOMAIN f0 = {"vote", "log", "committed", "accepted", "candidate", "leader", "out"}
          /\ f0.vote = eng[n].vote /\ f0.leader = NoLeader /\ f0.candidate = NoCandidate
          /\ f0.out = <<>>
      BY Zenon DEF Pristine
    <2>3. "vote" \in DOMAIN NoLeader
      BY DEF NoLeader
    <2>. HIDE DEF f0
    <2>. QED
      BY <2>1, <2>2, <2>3, CandidacyEarned, Zenon DEF Plain, Shaped
  <1>3. f1 = f0 \/ f1 = UpdateInternalServerState(f0, n)
    BY DEF Startup
  <1>4. f2 = f1 \/ f2 = UpdateLocalProgress(f1, n, LastLogId(f0))
    BY Zenon
  <1>5. RunEngineCommands(n, Settle(n, f2), streams, msgs)
    BY <1>1, Zenon
  <1>. HIDE DEF f0, f1, f2
  <1>6. Turn(Grants, n, eng[n].vote, f1)
    <2>1. Turn(Grants, n, eng[n].vote, f0)
      BY <1>2, EnginePlain, PlainTurn, Zenon DEF VoteLeq
    <2>. QED
      BY <1>3, <2>1, UpdateServerStateTurn
  <1>7. Turn(Grants, n, eng[n].vote, f2)
    BY <1>4, <1>6, UpdateLocalProgressQuiet, QuietTurn, TurnShaped
  <1>8. Left(streams, msgs)
    <2>1. StreamEarned(Grants, NoStream)
      BY CandidacyEarned, Zenon DEF NoStream, StreamEarned
    <2>. QED
      BY <2>1, AllLeft, Zenon DEF Left, RemoveAllReplication
  <1>. QED
    BY <1>5, <1>7, <1>8, TurnImplements, Zenon

------------------------------------------------------------------------------
\* Every step of the cluster is a step of Leadership, or nothing.
LEMMA NextImplements ==
    ASSUME ElectionInv, [Next]_vars
    PROVE  Implements
  <1>1. CASE UNCHANGED vars
    <2>1. ElectionInv'
      BY <1>1, Zenon DEF ElectionInv, vars, Grants, GrantsOf
    <2>2. Votes' = Votes /\ Grants' = Grants
      BY <1>1, Zenon DEF vars, Votes, Grants, GrantsOf
    <2>. QED
      BY <2>1, <2>2, Zenon DEF Implements, Election!vars
  <1>2. ASSUME NEW n \in Node,
               \/ InitializeNode(n) \/ TickElection(n) \/ RequestVote(n) \/ VoteResponse(n)
               \/ ClientWrite(n) \/ LocalIO(n) \/ AppendEntriesDelayed(n) \/ Restart(n)
        PROVE  Implements
    BY <1>2, InitializeImplements, TickImplements, RequestVoteImplements, VoteResponseImplements,
       ClientWriteImplements, LocalIOImplements, AppendEntriesImplements, RestartImplements, Zenon
  <1>3. ASSUME NEW n \in Node, NEW m \in Node,
               \/ SendHeartbeat(n, m) \/ StreamSend(n, m) \/ StreamRecv(n, m) \/ StreamError(n, m)
        PROVE  Implements
    BY <1>3, HeartbeatImplements, StreamSendImplements, StreamRecvImplements, StreamErrorImplements, Zenon
  <1>. QED
    BY <1>1, <1>2, <1>3, Zenon DEF Next

\* A pristine cluster: nobody has voted.
LEMMA InitImplements ==
    ASSUME Init
    PROVE  ElectionInv /\ Election!Init
  <1>1. Grants = {}
    BY DEF Init, Grants, GrantsOf
  <1>2. EngineEarned(Grants, Pristine) /\ Pristine.out = <<>> /\ Pristine.vote = DefaultVote
    BY CandidacyEarned, Zenon DEF Pristine, EngineEarned, NoLeader
  <1>3. StreamEarned(Grants, NoStream)
    BY CandidacyEarned, Zenon DEF NoStream, StreamEarned
  <1>4. ElectionInv
    BY <1>2, <1>3, Zenon DEF Init, ElectionInv, RemoveAllReplication
  <1>5. Votes = [n \in Node |-> DefaultVote]
    BY <1>2 DEF Init, Votes
  <1>. QED
    BY <1>1, <1>4, <1>5, SameOrder, Zenon DEF Election!Init

\* Wherever a vote is, on a node, in a leader, a replication task or a message, it is
\* of nobody, of a candidate, or of a leader that a quorum has granted it to.
THEOREM VotesAreEarned == Spec => []ElectionInv
  <1>1. Init => ElectionInv
    BY InitImplements
  <1>2. ElectionInv /\ [Next]_vars => ElectionInv'
    BY NextImplements DEF Implements
  <1>. QED
    BY <1>1, <1>2, PTL DEF Spec

\* The engines, replication tasks and messages of the cluster implement what
\* Leadership says about votes: nodes grant, take over or follow, and only a vote
\* that a quorum granted is committed.
THEOREM RaftImplementsLeadership == Spec => ImplementsLeadership
  <1>1. Init => Election!Init
    BY InitImplements
  <1>2. ElectionInv /\ [Next]_vars => [Election!Next]_(Election!vars)
    BY NextImplements DEF Implements
  <1>. QED
    BY <1>1, <1>2, VotesAreEarned, PTL DEF Spec, ImplementsLeadership, Election!Spec

------------------------------------------------------------------------------
\* What is proved of Leadership, for the votes and grants of the cluster.
LP == INSTANCE LeadershipProofs WITH vote <- Votes, granted <- Grants

\* The instance that ImplementsLeadership uses has the same initial states and steps.
LEMMA SameLeadership ==
    /\ Election!Init => LP!Init
    /\ [Election!Next]_(Election!vars) => [LP!Next]_(LP!vars)
  <1>1. Election!Next = LP!Next
    BY Zenon DEF Election!Next, LP!Next, Election!Grant, LP!Grant, Election!Adopt, LP!Adopt,
       Election!Follow, LP!Follow, Election!GrantedByQuorum, LP!GrantedByQuorum,
       Election!IsMajority, LP!IsMajority, Election!Cardinality, LP!Cardinality,
       Election!Candidacy, LP!Candidacy, Election!VoteLeq, LP!VoteLeq, Election!VoteLt, LP!VoteLt,
       Election!LeaderIdLt, LP!LeaderIdLt, Election!ToCommitted, LP!ToCommitted,
       Election!NoNode, LP!NoNode
  <1>2. Election!Init => LP!Init
    BY Zenon DEF Election!Init, LP!Init, Election!DefaultVote, LP!DefaultVote, Election!NoNode, LP!NoNode
  <1>. QED
    BY <1>1, <1>2, Zenon DEF Election!vars, LP!vars

\* The inductive invariant of Leadership is one of the cluster.
LEMMA LeadershipInv ==
    /\ LP!Init => LP!IInv
    /\ LP!IInv /\ [LP!Next]_(LP!vars) => LP!IInv'
    /\ LP!IInv => LP!LeadersComparable
  <1>1. LP!IsFiniteSet(Node)
    BY FiniteCluster, Zenon DEF IsFiniteSet, LP!IsFiniteSet
  <1>2. MaxTerm \in Nat /\ Node \subseteq Nat \ {LP!NoNode} /\ StdLeaderId \in BOOLEAN
    BY TermsAssumption, NodeAssumption, StdAssumption DEF LP!NoNode, NoNode
  <1>. QED
    BY <1>1, <1>2, LP!InitInv, LP!NextInv, LP!IInvImpliesComparable

\* Votes that were earned are of established leaders, which are comparable.
LEMMA EarnedOrdered ==
    ASSUME ElectionInv, LP!LeadersComparable
    PROVE  LeadersOrdered
  <1>1. ASSUME NEW v \in VotesInUse
        PROVE  Earned(Grants, v)
    BY DEF VotesInUse, ElectionInv, EngineEarned, StreamEarned, MessageEarned
  <1>2. ASSUME NEW v, Elected(Grants, v)
        PROVE  v \in LP!Established
    <2>1. \A S : P!IsMajority(Node, S) = LP!IsMajority(Node, S)
      BY Zenon DEF P!IsMajority, LP!IsMajority, P!Cardinality, LP!Cardinality
    <2>2. Election!Candidacy = LP!Candidacy
      BY Zenon DEF Election!Candidacy, LP!Candidacy
    <2>. QED
      BY <1>2, <2>1, <2>2, Zenon DEF Elected, LP!Established, LP!GrantedByQuorum
  <1>3. ASSUME NEW v \in VotesInUse, NEW w \in VotesInUse, v.committed, w.committed
        PROVE  v = w \/ LeaderIdLt(v, w) \/ LeaderIdLt(w, v)
    <2>. DEFINE a == ToNonCommitted(v)
                b == ToNonCommitted(w)
    <2>1. v \in Vote /\ w \in Vote /\ a \in LP!Established /\ b \in LP!Established
      BY <1>1, <1>2, <1>3, Zenon DEF Earned
    <2>2. a = b \/ LP!LeaderIdLt(a, b) \/ LP!LeaderIdLt(b, a)
      BY <2>1, Zenon DEF LP!LeadersComparable
    <2>3. a.term = v.term /\ a.node = v.node /\ b.term = w.term /\ b.node = w.node
      BY <2>1 DEF ToNonCommitted, Vote
    <2>4. a = b => v = w
      BY <1>3, <2>1, <2>3 DEF Vote
    <2>. QED
      BY <2>2, <2>3, <2>4 DEF LeaderIdLt, LP!LeaderIdLt, NoNode, LP!NoNode
  <1>. QED
    BY <1>3 DEF LeadersOrdered

\* No two leaders of the cluster are incomparable: with leader_id_std a term has one
\* leader, however messages, restarts and elections interleave.
THEOREM LeadersAreOrdered == Spec => []LeadersOrdered
  <1>1. Init => ElectionInv /\ LP!IInv
    BY InitImplements, SameLeadership, LeadershipInv
  <1>2. ElectionInv /\ LP!IInv /\ [Next]_vars => (ElectionInv /\ LP!IInv)'
    BY NextImplements, SameLeadership, LeadershipInv DEF Implements
  <1>3. ElectionInv /\ LP!IInv => LeadersOrdered
    BY LeadershipInv, EarnedOrdered
  <1>. QED
    BY <1>1, <1>2, <1>3, PTL DEF Spec
==============================================================================
