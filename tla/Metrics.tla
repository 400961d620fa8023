------------------------------ MODULE Metrics -------------------------------
(***************************************************************************)
(* What RaftCore tells the application of its state: the three watch       *)
(* channels of report_metrics(), the report at the top of each round of    *)
(* its loop and the last one on the way out, and Wait, which loops on the  *)
(* channel of RaftMetrics until a condition holds.                         *)
(*                                                                         *)
(* This node is Self.  Its state moves one handled message at a time, as   *)
(* far as the metrics show it: log ids are their indexes (0 for None), the *)
(* metrics show a membership as its voters.  A watch channel is its value; of the  *)
(* version a receiver has seen only whether it is the last one is kept.    *)
(***************************************************************************)
EXTENDS RaftTypes, FiniteSets

CONSTANTS
    Self,      \* the id of this node
    Waiter,    \* tasks of the application, one wait each
    MaxMoves,  \* bound: changes of the state
    MaxIndex   \* bound: log indexes

VARIABLES
    st,        \* what report_metrics() reads of the engine
    pc,        \* RaftCore: "data", "server", "metrics": the next channel to send on;
               \* "select"; "last": a report before the end; "gone"
    ending,    \* the Fatal RaftCore is about to return, "none" while it runs
    sent,      \* has tx_metrics ever sent
    metrics, data, server, \* the values of the channels
    wait,      \* the wait of each waiter
    moves

mvars == <<st, pc, ending, sent, metrics, data, server, wait, moves>>
coreVars == <<st, pc, ending, sent, metrics, data, server, moves>>

(* RaftState::is_leading: a leader or a candidate need not be a voter.       *)
IsLeading(s) == Self \in s.members /\ s.vote.node = Self

(* RaftState::calc_server_state *)
ServerState(s) ==
    IF IsLeading(s) THEN IF s.vote.committed THEN "Leader" ELSE "Candidate"
    ELSE IF Self \in s.voters THEN "Follower" ELSE "Learner"

(* update_server_state_if_changed *)
UpdateServerState(s) == [s EXCEPT !.state = ServerState(s)]

(* RaftCore::current_leader: a committed vote, of a voter. *)
CurrentLeader(s) == IF s.vote.committed /\ s.vote.node \in s.voters THEN s.vote.node ELSE NoNode

(* The three values an application may watch.  replication says whether     *)
(* there are replication and heartbeat states; times are left out.          *)
MetricsValue ==
    [running : BOOLEAN, term : Nat, vote : Vote, last : Nat, applied : Nat, snapshot : Nat, purged : Nat,
     state : {"Learner", "Follower", "Candidate", "Leader", "Shutdown"},
     leader : Node \cup {NoNode}, voters : SUBSET Node, replication : BOOLEAN]

DataMetricsValue == [last : Nat, applied : Nat, snapshot : Nat, purged : Nat, replication : BOOLEAN]

ServerMetricsValue ==
    [vote : Vote, state : {"Learner", "Follower", "Candidate", "Leader"}, leader : Node \cup {NoNode},
     voters : SUBSET Node]

(* RaftMetrics, RaftDataMetrics and RaftServerMetrics as report_metrics()   *)
(* builds them; replication is there in the reports of a leader.            *)
RaftMetrics(s, replication) ==
    [running |-> TRUE, term |-> s.vote.term, vote |-> s.flushed, last |-> s.last, applied |-> s.applied,
     snapshot |-> s.snapshot, purged |-> s.purged, state |-> s.state,
     leader |-> CurrentLeader(s), voters |-> s.voters, replication |-> replication]

RaftDataMetrics(s, replication) ==
    [last |-> s.last, applied |-> s.applied, snapshot |-> s.snapshot, purged |-> s.purged,
     replication |-> replication]

RaftServerMetrics(s) ==
    [vote |-> s.flushed, state |-> s.state, leader |-> CurrentLeader(s), voters |-> s.voters]

(* RaftMetrics::new_initial and the defaults of the other two *)
NewInitial ==
    [running |-> TRUE, term |-> 0, vote |-> DefaultVote, last |-> 0, applied |-> 0, snapshot |-> 0,
     purged |-> 0, state |-> "Follower", leader |-> NoNode, voters |-> {}, replication |-> FALSE]

(* The field a Metric is compared with *)
Value(metric, m) ==
    CASE metric = "Term" -> m.term
      [] metric = "Vote" -> m.vote
      [] metric = "LastLogIndex" -> m.last
      [] metric = "AppliedIndex" -> m.applied
      [] metric = "Snapshot" -> m.snapshot
      [] metric = "Purged" -> m.purged
      [] metric = "State" -> m.state
      [] metric = "CurrentLeader" -> m.leader
      [] metric = "VoterIds" -> m.voters

(* PartialEq and PartialOrd of RaftMetrics with a Metric; votes are ordered *)
(* partially.                                                               *)
MetricEq(cond, m) == Value(cond.metric, m) = cond.want
MetricGe(cond, m) ==
    IF cond.metric = "Vote" THEN VoteLeq(cond.want, m.vote) ELSE Value(cond.metric, m) >= cond.want

(* Wait::until, and Condition::ge and Condition::eq *)
Meets(cond, m) == IF cond.op = "GE" THEN MetricGe(cond, m) ELSE MetricEq(cond, m)

Ge(metric, want) == [metric |-> metric, op |-> "GE", want |-> want]
Eq(metric, want) == [metric |-> metric, op |-> "EQ", want |-> want]

(* The calls of Wait, in their order in wait.rs, each with one argument:    *)
(* vote, current_leader, log, log_at_least, log_index_at_least,             *)
(* applied_index, state, voter_ids, snapshot, purged; and ge for a term.    *)
Waits ==
    {<<Eq("Vote", NewVote(1, Self))>>,
     <<Eq("CurrentLeader", Self)>>,
     <<Eq("LastLogIndex", 1), Eq("AppliedIndex", 1)>>,
     <<Ge("LastLogIndex", 1), Ge("AppliedIndex", 1)>>,
     <<Ge("LastLogIndex", 2)>>,
     <<Eq("AppliedIndex", 2)>>,
     <<Eq("State", "Leader")>>,
     <<Eq("VoterIds", Node)>>,
     <<Eq("Snapshot", 1)>>,
     <<Eq("Purged", 1)>>,
     <<Ge("Term", 1)>>,
     <<Ge("Vote", NewVote(1, Self))>>}

-----------------------------------------------------------------------------
NotWaiting == [st |-> "idle", conds |-> <<>>, unseen |-> FALSE, res |-> "none"]

(* do_main after startup() of a voter that has a log, and may have been the *)
(* leader, before the first report.                                         *)
Init ==
    /\ st \in {[vote |-> v, flushed |-> v, last |-> 1, applied |-> 0, snapshot |-> 0, purged |-> 0,
               voters |-> {Self}, members |-> {Self},
               leading |-> v.committed, state |-> IF v.committed THEN "Leader" ELSE "Follower"] :
                  v \in {DefaultVote, ToCommitted(NewVote(1, Self))}}
    /\ pc = "data" /\ ending = "none" /\ sent = FALSE /\ moves = 0
    /\ metrics = NewInitial
    /\ data = [last |-> 0, applied |-> 0, snapshot |-> 0, purged |-> 0, replication |-> FALSE]
    /\ server = [vote |-> DefaultVote, state |-> "Learner", leader |-> NoNode, voters |-> {}]
    /\ wait = [w \in Waiter |-> NotWaiting]

(* flush_metrics: the replication of a leader; main and do_main report none. *)
Replication == sent /\ ending = "none" /\ st.leading

(* A value sent on tx_metrics is new to every receiver. *)
Unseen == [w \in Waiter |-> [wait[w] EXCEPT !.unseen = wait[w].st \in {"check", "changed"}]]

(* report_metrics: the data metrics first ... *)
SendData ==
    /\ pc = "data"
    /\ data' = RaftDataMetrics(st, Replication)
    /\ pc' = "server"
    /\ UNCHANGED <<st, ending, sent, metrics, server, wait, moves>>

SendServer ==
    /\ pc = "server"
    /\ server' = RaftServerMetrics(st)
    /\ pc' = "metrics"
    /\ UNCHANGED <<st, ending, sent, metrics, data, wait, moves>>

(* Variant of SendMetrics: receivers are told only of new data. *)
SendMetricsQuietly ==
    /\ pc = "metrics"
    /\ metrics' = RaftMetrics(st, Replication)
    /\ wait' = IF sent /\ RaftDataMetrics(metrics, metrics.replication) = data THEN wait ELSE Unseen
    /\ sent' = TRUE
    /\ pc' = IF ending = "none" THEN "select" ELSE "last"
    /\ UNCHANGED <<st, ending, data, server, moves>>

(* ... and the metrics last. *)
SendMetrics ==
    /\ pc = "metrics"
    /\ metrics' = RaftMetrics(st, Replication)
    /\ wait' = Unseen
    /\ sent' = TRUE
    /\ pc' = IF ending = "none" THEN "select" ELSE "last"
    /\ UNCHANGED <<st, ending, data, server, moves>>

(* The end of main(): state and running_state, in the metrics alone. *)
SendShutdown ==
    /\ pc = "last"
    /\ metrics' = [metrics EXCEPT !.state = "Shutdown", !.running = FALSE]
    /\ wait' = Unseen
    /\ pc' = "gone"
    /\ UNCHANGED <<st, ending, sent, data, server, moves>>

-----------------------------------------------------------------------------
(* A message is handled, the state becomes s, and the loop begins again. *)
Handled(s) ==
    /\ pc = "select" /\ moves < MaxMoves
    /\ st' = s /\ moves' = moves + 1 /\ pc' = "data"
    /\ UNCHANGED <<ending, sent, metrics, data, server, wait>>

(* update_vote and become_following, for the vote of a candidate and then   *)
(* of the leader n                                                          *)
UpdateVote ==
    \E n \in Node \ {Self} :
        \E v \in {NewVote(st.vote.term + 1, n), ToCommitted(st.vote)} :
            /\ v # st.vote /\ v.node = n
            /\ Handled(UpdateServerState([st EXCEPT !.vote = v, !.leading = FALSE]))

(* Engine::elect, of a voter; a leader told to elect keeps its leader state. *)
Elect ==
    /\ Self \in st.voters
    /\ Handled(UpdateServerState([st EXCEPT !.vote = NewVote(st.vote.term + 1, Self)]))

EstablishLeader ==
    /\ st.state = "Candidate"
    /\ Handled(UpdateServerState([st EXCEPT !.vote = ToCommitted(@), !.leading = TRUE]))

(* The vote this node follows is that of another. *)
Following == st.vote.node # Self

(* IOProgress::flush, of the vote *)
FlushVote == st.flushed # st.vote /\ Handled([st EXCEPT !.flushed = st.vote])

AppendLog == st.last < MaxIndex /\ Handled([st EXCEPT !.last = @ + 1])

TruncateLog ==
    st.last > st.applied /\ Following /\ Handled([st EXCEPT !.last = @ - 1])

(* IOState::update_applied *)
UpdateApplied == st.applied < st.last /\ Handled([st EXCEPT !.applied = @ + 1])

(* IOState::update_snapshot, of a snapshot built at applied *)
UpdateSnapshot == st.snapshot < st.applied /\ Handled([st EXCEPT !.snapshot = st.applied])

(* IOState::update_purged *)
UpdatePurged == st.purged < st.snapshot /\ Handled([st EXCEPT !.purged = st.snapshot])

(* install_full_snapshot: all of the log is in it. *)
InstallSnapshot ==
    /\ st.applied < MaxIndex /\ Following
    /\ Handled([st EXCEPT !.last = MaxIndex, !.applied = MaxIndex, !.snapshot = MaxIndex, !.purged = MaxIndex])

(* A membership of the voters v and the nodes m.  The server state follows  *)
(* it at once, but for a leader: it "does not quit at once".                *)
UpdateMembership ==
    \E v \in SUBSET Node \ {{}}, m \in SUBSET Node :
        LET s == [st EXCEPT !.voters = v, !.members = m]
        IN  /\ v \subseteq m /\ s # st
            /\ \/ Following /\ Handled(UpdateServerState(s))
               \/ st.state = "Leader" /\ st.leading /\ Handled(s)

(* Engine::leader_step_down, once the membership is committed: a leader that *)
(* is no member of it follows.                                               *)
LeaderStepDown ==
    /\ st.leading /\ ~IsLeading(st)
    /\ Handled(UpdateServerState([st EXCEPT !.leading = FALSE]))

(* A round of the loop that changes nothing the metrics show. *)
Tick ==
    /\ pc = "select" /\ pc' = "data"
    /\ UNCHANGED <<st, ending, sent, metrics, data, server, wait, moves>>

(* Variant of Exit: nothing is reported after the loop. *)
ExitUnflushed(s) ==
    /\ pc = "select" /\ ending' = "Stopped"
    /\ st' = s /\ pc' = "last"
    /\ UNCHANGED <<sent, metrics, data, server, wait, moves>>

(* The loop returns an error with the state at s, after part of a round;   *)
(* main() reports once more.                                               *)
Exit(s) ==
    /\ pc = "select" /\ ending' = "Stopped"
    /\ st' = s /\ pc' = "data"
    /\ UNCHANGED <<sent, metrics, data, server, wait, moves>>

Stop == Exit(st) \/ (st.applied < st.last /\ Exit([st EXCEPT !.applied = @ + 1]))

(* A panic unwinds RaftCore: the channels close. *)
Panic ==
    /\ pc = "select" /\ pc' = "gone" /\ ending' = "Panicked"
    /\ UNCHANGED <<st, sent, metrics, data, server, wait, moves>>

-----------------------------------------------------------------------------
(* Raft::wait and Wait::metrics: a clone of a receiver that has seen the    *)
(* initial value.                                                           *)
StartWait(w, conds) ==
    /\ wait[w].st = "idle"
    /\ wait' = [wait EXCEPT ![w] = [st |-> "check", conds |-> conds, unseen |-> sent, res |-> "none"]]
    /\ UNCHANGED coreVars

(* The condition on the latest value; Wait::log goes on to a second wait.  *)
Check(w) ==
    LET x == wait[w] IN
    /\ x.st = "check"
    /\ wait' = [wait EXCEPT ![w] =
           IF ~Meets(Head(x.conds), metrics) THEN [x EXCEPT !.st = "changed"]
           ELSE IF Len(x.conds) = 1 THEN [x EXCEPT !.st = "done", !.res = "ok", !.unseen = FALSE]
           ELSE [x EXCEPT !.conds = Tail(@), !.unseen = sent]]
    /\ UNCHANGED coreVars

(* rx.changed(): at once if the value has not been seen; an error if the   *)
(* sender is gone and it has.                                              *)
Changed(w) ==
    LET x == wait[w] IN
    /\ x.st = "changed" /\ (x.unseen \/ pc = "gone")
    /\ wait' = [wait EXCEPT ![w] = IF x.unseen THEN [x EXCEPT !.unseen = FALSE, !.st = "check"]
                                   ELSE [x EXCEPT !.st = "done", !.res = "ShuttingDown"]]
    /\ UNCHANGED coreVars

Timeout(w) ==
    /\ wait[w].st = "changed"
    /\ wait' = [wait EXCEPT ![w].st = "done", ![w].res = "Timeout", ![w].unseen = FALSE]
    /\ UNCHANGED coreVars

-----------------------------------------------------------------------------
Report == SendData \/ SendServer \/ SendMetrics \/ SendShutdown

Handle ==
    \/ UpdateVote \/ Elect \/ EstablishLeader \/ LeaderStepDown \/ FlushVote \/ AppendLog \/ TruncateLog \/ UpdateApplied \/ UpdateSnapshot
    \/ UpdatePurged \/ InstallSnapshot \/ UpdateMembership \/ Tick

Next ==
    \/ Report \/ Handle \/ Stop \/ Panic
    \/ \E w \in Waiter : Check(w) \/ Changed(w) \/ Timeout(w) \/ \E conds \in Waits : StartWait(w, conds)

(* RaftCore reports without waiting for anyone; the runtime polls a wait   *)
(* whose receiver has changed.                                             *)
Fairness == WF_mvars(Report) /\ \A w \in Waiter : WF_mvars(Check(w) \/ Changed(w))

FairSpec == Init /\ [][Next]_mvars /\ Fairness
-----------------------------------------------------------------------------
(* Only RaftMetrics shows that the node has shut down. *)
TypeOK == metrics \in MetricsValue /\ data \in DataMetricsValue /\ server \in ServerMetricsValue

(* "if `RaftMetrics` change is perceived, the other two should have been   *)
(* updated" (report_metrics): what only grows has, in the other two        *)
(* channels, come at least as far as in the metrics, at every moment, and  *)
(* between two reports all three show the same state of a running node.    *)
ReportOrder ==
    /\ data.applied >= metrics.applied /\ data.purged >= metrics.purged
    /\ VoteLeq(metrics.vote, server.vote)
    /\ (pc = "select") =>
           /\ data = RaftDataMetrics(metrics, metrics.replication)
           /\ server = [vote |-> metrics.vote, state |-> metrics.state, leader |-> metrics.leader,
                        voters |-> metrics.voters]
           /\ metrics = RaftMetrics(st, metrics.replication)

(* A wait gives up with ShuttingDown only for a condition the last state   *)
(* of RaftCore does not meet (as the state it is shut down in), unless it  *)
(* panicked: main() reports what the last round did before it closes the   *)
(* channel, and a value not yet seen comes before the end.                 *)
WaitTold ==
    TypeOK /\ ReportOrder /\ \A w \in Waiter :
        wait[w].res = "ShuttingDown" =>
            ending = "Panicked" \/ ~Meets(Head(wait[w].conds), [RaftMetrics(st, FALSE) EXCEPT !.state = "Shutdown"])

(* A wait whose condition the state of the node meets and goes on to meet  *)
(* returns, however the reports fall between its look at the channel and   *)
(* its wait for a change.                                                  *)
WaitWakes ==
    \A w \in Waiter :
        (wait[w].st \in {"check", "changed"}) ~>
            (wait[w].st = "done" \/ \E c \in {wait[w].conds} : c # <<>> /\ ~Meets(Head(c), RaftMetrics(st, FALSE)))
=============================================================================
