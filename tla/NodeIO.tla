------------------------------- MODULE NodeIO --------------------------------
(***************************************************************************)
(* The IO of one node: RaftCore's command queue and notification channel   *)
(* (openraft/src/core/raft_core.rs), the log store, and the state machine  *)
(* worker (openraft/src/core/sm), with snapshots, purging, the responses   *)
(* to clients and restart (openraft/src/storage/helper.rs).                *)
(*                                                                         *)
(* The node starts as the leader of OwnVote.  At some point another node   *)
(* is elected with LaterVote, and from then on this node follows it.  The  *)
(* log that the cluster ends up committing is the variable truth, a        *)
(* sequence of terms, <<>> until the other leader is there.                *)
(*                                                                         *)
(* The state of the node is the record node:                               *)
(*   vote, log, purged, committed, snapshot, purge_upto                    *)
(*              RaftState; log is the sequence of the terms of the log     *)
(*              ids, and up to purged.index every term is purged.term      *)
(*   accepted, submitted, flushed, applied, io_snapshot, building          *)
(*              RaftState.io_state                                         *)
(*   out        Engine.output                                              *)
(*   notif      the channel rx_notification                                *)
(*   store      the log store: log and purged as above, the last log       *)
(*              index that is durable, the appends whose callback is still *)
(*              to be called, and the saved vote and committed log id      *)
(*   sm         the state machine: the applied log id, the last log id of  *)
(*              its snapshot, the worker's channel cmds, and the log id at *)
(*              which a snapshot is being built                            *)
(*   waiting    the indexes in client_resp_channels                        *)
(*   acked      the greatest log id reported to the leader as stored.  A   *)
(*              snapshot that conflicts with the log here is stored by a   *)
(*              quorum without this node: what it covers counts no more    *)
(*   overlapped whether a snapshot came that ends before what was accepted *)
(*              from the same leader: the answer to that was lost          *)
(*   down       why the node stopped, "" if it is running                  *)
(***************************************************************************)
EXTENDS RaftTypes, SequencesExt

CONSTANTS
    MaxIndex,         \* the greatest log index
    MaxBatch,         \* entries in an append-entries request
    MaxInputs,        \* requests and triggers the node handles
    MaxCrashes,       \* restarts
    KeepLogs,         \* Config::max_in_snapshot_log_to_keep
    LogsSinceLast,    \* SnapshotPolicy::LogsSinceLast; 0 is Never
    PersistCommitted, \* whether the log store implements save_committed
    PersistApply,     \* whether apply() is persistent; if not, snapshots are
    OlderTail         \* whether the later leader may have entries of a leader
                      \* before this node that this node never received

ASSUME IndexAssumption == MaxIndex \in Nat \ {0} /\ MaxBatch \in Nat \ {0}
ASSUME FlagAssumption ==
    {PersistCommitted, PersistApply, OlderTail} \subseteq BOOLEAN

VARIABLES node, truth, inputs, crashes

vars == <<node, truth, inputs, crashes>>

OlderTerm == 1
OwnTerm == 2
OtherTerm == 3
OwnVote == ToCommitted(NewVote(OwnTerm, 1))
LaterVote == ToCommitted(NewVote(4, 2))

Id(t, i) == IF i = 0 THEN NoLogId ELSE [term |-> t, node |-> NoNode, index |-> i]

IdAt(log, i) == IF i \in DOMAIN log THEN Id(log[i], i) ELSE NoLogId

\* RaftState: a log id below the last purged one is not known any more.
GetLogId(n, i) == IF i < n.purged.index THEN NoLogId ELSE IdAt(n.log, i)

HasLogId(n, id) == id.index <= n.committed.index \/ GetLogId(n, id.index) = id

Leading(n) == n.vote = OwnVote

Push(n, cmd) == [n EXCEPT !.out = Append(@, cmd)]

Notify(n, msg) == [n EXCEPT !.notif = Append(@, msg)]

\* IOProgress::accept, submit and flush
Accept(n, io) == [n EXCEPT !.accepted = io]
Submit(n, io) == [n EXCEPT !.submitted = io]
Flushed(n, io) == [n EXCEPT !.flushed = io]

\* A log after purging up to id, which may be beyond its end.
Cut(log, id) ==
    [i \in 1..Max({Len(log), id.index}) |-> IF i <= id.index THEN id.term ELSE log[i]]

\* A log with terms from index i on.  What is missing before i is a hole.
Hole == 0
Splice(log, i, terms) ==
    [j \in 1..(i - 1 + Len(terms)) |->
        IF j >= i THEN terms[j - i + 1] ELSE IF j <= Len(log) THEN log[j] ELSE Hole]

------------------------------------------------------------------------------
\* Commands and their conditions

Always == [kind |-> "always"]
IOFlushed(io) == [kind |-> "flushed", io |-> io]
InSnapshot(id) == [kind |-> "snapshot", id |-> id]

\* Variant of Condition in which responses are sent at once.
ConditionRespondAtOnce(cmd) ==
    IF cmd.type = "PurgeLog" THEN InSnapshot(cmd.upto) ELSE Always

\* Command::condition
Condition(cmd) ==
    CASE cmd.type \in {"Respond", "UpdateIOProgress"} -> cmd.when
      [] cmd.type = "PurgeLog" -> InSnapshot(cmd.upto)
      [] OTHER -> Always

\* The first part of run_command: whether the command is postponed.
Satisfied(n, cond) ==
    CASE cond.kind = "flushed" -> ~IOIdLt(n.flushed, cond.io)
      [] cond.kind = "snapshot" -> ~LogIdLt(n.io_snapshot, cond.id)
      [] OTHER -> TRUE

\* The log store serializes its writes: one that is awaited completes after
\* all the appends before it, whose callbacks are then called.
LocalIO(io) == [type |-> "LocalIO", io |-> io]
Sync(n) ==
    [n EXCEPT !.store.durable = Len(n.store.log),
              !.store.pending = <<>>,
              !.notif = @ \o [i \in DOMAIN n.store.pending |-> LocalIO(n.store.pending[i].io)]]

AppendInputEntries(n, cmd) ==
    LET log == Splice(n.store.log, cmd.from, cmd.terms)
    IN  [Submit(n, cmd.io) EXCEPT
                  !.store.log = log,
                  !.store.pending = Append(@, [io |-> cmd.io, len |-> Len(log)])]

SaveVote(n, cmd) ==
    Notify([Submit(Sync(n), NewIOId(cmd.vote)) EXCEPT !.store.vote = cmd.vote],
           LocalIO(NewIOId(cmd.vote)))

PurgeLog(n, cmd) ==
    LET s == Sync(n)
        log == Cut(s.store.log, cmd.upto)
    IN  [s EXCEPT !.store.log = log, !.store.purged = cmd.upto, !.store.durable = Len(log)]

\* The clients that wait for the removed entries are told to go to the leader.
TruncateLog(n, cmd) ==
    LET s == Sync(n)
        log == SubSeq(s.store.log, 1, cmd.since - 1)
    IN  [s EXCEPT !.store.log = log, !.store.durable = Len(log),
                  !.acked = IF @.index <= cmd.covered THEN NoLogId ELSE @,
                  !.waiting = {i \in @ : i < cmd.since}]

SaveCommitted(n, cmd) ==
    IF PersistCommitted THEN [Sync(n) EXCEPT !.store.committed = cmd.id] ELSE n

\* The first log id to apply is looked up when the command runs, and unwrapped.
Apply(n, cmd) ==
    LET first == GetLogId(n, cmd.already.index + 1)
    IN  IF first = NoLogId
        THEN [n EXCEPT !.down = "Apply"]
        ELSE [n EXCEPT !.sm.cmds = Append(@, [type |-> "Apply", first |-> first, last |-> cmd.upto])]

\* RaftCore::run_command, its condition being satisfied.
RunCommand(n, cmd) ==
    CASE cmd.type = "UpdateIOProgress" -> Notify(Submit(n, cmd.io), LocalIO(cmd.io))
      [] cmd.type = "AppendInputEntries" -> AppendInputEntries(n, cmd)
      [] cmd.type = "SaveVote" -> SaveVote(n, cmd)
      [] cmd.type = "PurgeLog" -> PurgeLog(n, cmd)
      [] cmd.type = "TruncateLog" -> TruncateLog(n, cmd)
      [] cmd.type = "SaveCommitted" -> SaveCommitted(n, cmd)
      [] cmd.type = "Apply" -> Apply(n, cmd)
      [] cmd.type = "BuildSnapshot" -> [n EXCEPT !.sm.cmds = Append(@, cmd)]
      [] cmd.type = "InstallFullSnapshot" ->
             [Submit(n, cmd.io) EXCEPT !.sm.cmds = Append(@, cmd)]
      [] cmd.type = "Respond" -> [n EXCEPT !.acked = MaxLogId(@, cmd.ack)]

\* run_engine_commands: the first command that has to wait blocks the others.
RunEngineCommands(n) ==
    FoldLeft(LAMBDA acc, cmd :
                 IF acc.out = <<>> /\ acc.down = "" /\ Satisfied(acc, Condition(cmd))
                 THEN RunCommand(acc, cmd)
                 ELSE Push(acc, cmd),
             [n EXCEPT !.out = <<>>], n.out)

------------------------------------------------------------------------------
\* The handlers of the Engine

AcceptIO(n, io) == IF IOIdLt(n.accepted, io) THEN Accept(n, io) ELSE n

TriggerSnapshot(n) ==
    IF n.building THEN n
    ELSE Push([n EXCEPT !.building = TRUE], [type |-> "BuildSnapshot"])

ShouldSnapshot(n) == LogsSinceLast # 0 /\ n.committed.index >= n.snapshot.index + LogsSinceLast

\* Variant of CommitEntries that applies again what is not known to be applied.
CommitEntriesFromApplied(n, id) ==
    IF ~LogIdLt(n.committed, id) THEN n
    ELSE LET c == Push(Push([n EXCEPT !.committed = id],
                            [type |-> "SaveCommitted", id |-> id]),
                       [type |-> "Apply", already |-> n.applied, upto |-> id])
         IN  IF ShouldSnapshot(c) THEN TriggerSnapshot(c) ELSE c

\* update_committed and the commands that follow it.
CommitEntries(n, id) ==
    IF ~LogIdLt(n.committed, id) THEN n
    ELSE LET c == Push(Push([n EXCEPT !.committed = id],
                            [type |-> "SaveCommitted", id |-> id]),
                       [type |-> "Apply", already |-> n.committed, upto |-> id])
         IN  IF ShouldSnapshot(c) THEN TriggerSnapshot(c) ELSE c

\* LogHandler::purge_log
PurgeScheduled(n) ==
    IF LogIdLeq(n.purge_upto, n.purged) THEN n
    ELSE Push([n EXCEPT !.log = Cut(@, n.purge_upto), !.purged = n.purge_upto],
              [type |-> "PurgeLog", upto |-> n.purge_upto])

\* Engine::try_purge_log: a leader does not purge what a replication task is
\* sending; in_use says whether one is.
TryPurgeLog(n, in_use) == IF Leading(n) /\ in_use THEN n ELSE PurgeScheduled(n)

\* LogHandler::calc_purge_upto with a purge_batch_size of 1.
CalcPurgeUpto(n) ==
    LET end == n.snapshot.index - KeepLogs
    IN  IF n.purged.index + 1 > end THEN NoLogId ELSE GetLogId(n, end)

SchedulePolicyBasedPurge(n) ==
    LET id == CalcPurgeUpto(n) IN IF id = NoLogId THEN n ELSE [n EXCEPT !.purge_upto = id]

FinishBuildingSnapshot(n, id, in_use) ==
    LET b == [n EXCEPT !.building = FALSE]
    IN  IF LogIdLeq(id, n.snapshot) THEN b
        ELSE TryPurgeLog(SchedulePolicyBasedPurge([b EXCEPT !.snapshot = id]), in_use)

\* Engine::trigger_purge_log; the log id at the index is unwrapped.
TriggerPurgeLog(n, index, in_use) ==
    LET id == GetLogId(n, Min({index, n.snapshot.index}))
    IN  IF n.snapshot = NoLogId \/ index <= n.purge_upto.index THEN n
        ELSE IF id = NoLogId THEN [n EXCEPT !.down = "TriggerPurgeLog"]
        ELSE TryPurgeLog([n EXCEPT !.purge_upto = id], in_use)

\* Variant of UpdateVote that does not accept the IO of the new vote.
UpdateVoteUnaccepted(n, vote) ==
    IF VoteLt(n.vote, vote)
    THEN Push([n EXCEPT !.vote = vote], [type |-> "SaveVote", vote |-> vote])
    ELSE n

UpdateVote(n, vote) ==
    IF VoteLt(n.vote, vote)
    THEN Push(AcceptIO([n EXCEPT !.vote = vote], NewIOId(vote)),
              [type |-> "SaveVote", vote |-> vote])
    ELSE n

\* Variant of TruncateLogs that leaves the log store alone.
TruncateLogsInMemory(n, since, covered) ==
    IF GetLogId(n, since) = NoLogId THEN n ELSE [n EXCEPT !.log = SubSeq(@, 1, since - 1)]

TruncateLogs(n, since, covered) ==
    IF GetLogId(n, since) = NoLogId THEN n
    ELSE Push([n EXCEPT !.log = SubSeq(@, 1, since - 1)],
              [type |-> "TruncateLog", since |-> since, covered |-> covered])

\* LeaderHandler::leader_append_entries with one entry.
LeaderAppendEntries(n) ==
    LET i == Len(n.log) + 1
        io == NewLogIOId(n.vote, Id(OwnTerm, i))
    IN  Push(AcceptIO([n EXCEPT !.log = Append(@, OwnTerm)], io),
             [type |-> "AppendInputEntries", io |-> io, from |-> i, terms |-> <<OwnTerm>>])

\* The last log id of a request with these entries after prev.
LastOf(prev, terms) ==
    IF terms = <<>> THEN prev ELSE Id(Last(terms), prev.index + Len(terms))

\* FollowingHandler::append_entries: what is not there yet is appended, after
\* truncating what conflicts; if all of it is there, only the IO progress is
\* updated, once the IO accepted before is flushed.
AppendEntries(n, prev, terms) ==
    LET io    == NewLogIOId(n.vote, MaxLogId(prev, LastOf(prev, terms)))
        a     == AcceptIO(n, io)
        since == SelectInSeq([j \in DOMAIN terms |-> Id(terms[j], prev.index + j)],
                             LAMBDA id : ~HasLogId(n, id))
        from  == prev.index + since
        rest  == SubSeq(terms, since, Len(terms))
        t     == TruncateLogs(a, from, 0)
    IN  IF since # 0
        THEN Push([t EXCEPT !.log = Splice(@, from, rest)],
                  [type |-> "AppendInputEntries", io |-> io, from |-> from, terms |-> rest])
        ELSE IF IOIdLeq(io, n.accepted) THEN a
        ELSE Push(a, [type |-> "UpdateIOProgress", when |-> IOFlushed(n.accepted), io |-> io])

\* Variant of HandleAppendEntries that commits up to the last log here.
HandleAppendEntriesCommitLast(n, prev, terms, commit) ==
    LET v == UpdateVote(n, LaterVote)
        a == AppendEntries(v, prev, terms)
        r == Push(a, [type |-> "Respond", when |-> IOFlushed(a.accepted),
                      ack |-> LastOf(prev, terms)])
    IN  IF prev # NoLogId /\ ~HasLogId(v, prev)
        THEN Push(TruncateLogs(v, prev.index, 0),
                  [type |-> "Respond", when |-> Always, ack |-> NoLogId])
        ELSE CommitEntries(r, MinLogId(IdAt(r.log, Len(r.log)), commit))

\* handle_append_entries_request: the response, then what it lets commit.
HandleAppendEntries(n, prev, terms, commit) ==
    LET v == UpdateVote(n, LaterVote)
        a == AppendEntries(v, prev, terms)
        r == Push(a, [type |-> "Respond", when |-> IOFlushed(a.accepted),
                      ack |-> LastOf(prev, terms)])
    IN  IF prev # NoLogId /\ ~HasLogId(v, prev)
        THEN Push(TruncateLogs(v, prev.index, 0),
                  [type |-> "Respond", when |-> Always, ack |-> NoLogId])
        ELSE CommitEntries(r, MinLogId(r.accepted.last, commit))

\* FollowingHandler::install_full_snapshot of a snapshot that is newer than
\* what is committed, and than the last snapshot.
InstallFullSnapshot(n, id) ==
    LET local == GetLogId(n, id.index)
        io == NewLogIOId(n.vote, id)
        t == IF local \notin {NoLogId, id} THEN TruncateLogs(n, n.committed.index + 1, id.index) ELSE n
    IN  PurgeScheduled(Push([AcceptIO(t, io) EXCEPT !.snapshot = id, !.committed = id,
                                                    !.purge_upto = id],
                            [type |-> "InstallFullSnapshot", id |-> id, io |-> io]))

HandleInstallFullSnapshot(n, id) ==
    LET v == UpdateVote(n, LaterVote)
    IN  IF LogIdLeq(id, v.committed) \/ LogIdLeq(id, v.snapshot)
        THEN Push(v, [type |-> "Respond", when |-> Always, ack |-> id])
        ELSE Push(InstallFullSnapshot(v, id),
                  [type |-> "Respond", when |-> InSnapshot(id), ack |-> id])

------------------------------------------------------------------------------
\* RaftCore::handle_notification

\* Variant of Installed that does not tell the purge it may proceed.
InstalledNoSnapshot(n, msg) == [Flushed(n, msg.io) EXCEPT !.applied = msg.id]

Installed(n, msg) ==
    [Flushed(n, msg.io) EXCEPT !.applied = msg.id, !.io_snapshot = msg.id]

\* Response::Apply and handle_apply_result: answer the clients.
Applied(n, msg) ==
    [n EXCEPT !.applied = msg.last, !.waiting = @ \ (msg.since .. msg.last.index)]

\* What a LocalIO lets a leader commit is committed by LeaderProgress.
Notified(n, msg, in_use) ==
    CASE msg.type = "LocalIO" -> Flushed(n, msg.io)
      [] msg.type = "BuildSnapshot" ->
             [FinishBuildingSnapshot(n, msg.id, in_use) EXCEPT !.io_snapshot = msg.id]
      [] msg.type = "InstallSnapshot" -> Installed(n, msg)
      [] msg.type = "Apply" -> Applied(n, msg)
      [] msg.type = "StorageError" -> [n EXCEPT !.down = "StorageError"]

------------------------------------------------------------------------------
\* The state machine worker

Readable(n, first, last) == first > n.store.purged.index /\ last <= Len(n.store.log)

\* Worker::worker_loop: one command.  A snapshot is built by a task of its own,
\* from the view of the state machine at this moment.
Work(n) ==
    LET cmd == Head(n.sm.cmds)
        w == [n EXCEPT !.sm.cmds = Tail(@)]
    IN  CASE cmd.type = "BuildSnapshot" -> [w EXCEPT !.sm.views = @ \cup {n.sm.applied}]
          [] cmd.type = "InstallFullSnapshot" ->
                 Notify([w EXCEPT !.sm.applied = cmd.id, !.sm.snapshot = cmd.id],
                        [type |-> "InstallSnapshot", io |-> cmd.io, id |-> cmd.id])
          [] cmd.type = "Apply" ->
                 IF Readable(n, cmd.first.index, cmd.last.index)
                 THEN Notify([w EXCEPT !.sm.applied = cmd.last],
                             [type |-> "Apply", since |-> cmd.first.index, last |-> cmd.last])
                 ELSE Notify(w, [type |-> "StorageError"])

\* The task that builds a snapshot ends.  The state machine keeps the newest.
Built(n, id) ==
    Notify([n EXCEPT !.sm.views = @ \ {id}, !.sm.snapshot = MaxLogId(@, id)],
           [type |-> "BuildSnapshot", id |-> id])

------------------------------------------------------------------------------
\* StorageHelper::get_initial_state, on what a crash leaves behind.

DurableApplied(n) == IF PersistApply THEN n.sm.applied ELSE n.sm.snapshot

\* Variant of CanReapply that reads the log at was again.
CanReapplyInclusive(n, was, committed) ==
    was.index > n.store.purged.index /\ committed.index <= n.store.durable

\* reapply_committed: the logs after was, up to committed, are in the store.
CanReapply(n, was, committed) ==
    was.index >= n.store.purged.index /\ committed.index <= n.store.durable

Restarted(n) ==
    LET log == SubSeq(n.store.log, 1, n.store.durable)
        was == DurableApplied(n)
        applied == MaxLogId(n.store.committed, was)
        dirty == LogIdLt(IdAt(log, Len(log)), applied)
        stored == IF dirty THEN Cut(log, applied) ELSE log
        purged == IF dirty THEN applied ELSE n.store.purged
        snapshot == IF n.sm.snapshot = NoLogId /\ purged # NoLogId
                    THEN applied ELSE n.sm.snapshot
        vote == NewIOId(n.store.vote)
        missing == LogIdLt(was, applied) /\ ~CanReapply(n, was, applied)
    IN  [n EXCEPT !.vote = n.store.vote,
                  !.log = IF dirty THEN SubSeq(stored, 1, applied.index) ELSE log,
                  !.purged = purged, !.committed = applied, !.snapshot = snapshot,
                  !.purge_upto = purged,
                  !.accepted = vote, !.submitted = vote, !.flushed = vote,
                  !.applied = applied, !.io_snapshot = snapshot, !.building = FALSE,
                  !.out = <<>>, !.notif = <<>>,
                  !.store = [@ EXCEPT !.log = stored, !.purged = purged,
                                      !.durable = Len(stored), !.pending = <<>>],
                  !.sm = [applied |-> applied, snapshot |-> snapshot,
                          cmds |-> <<>>, views |-> {}],
                  !.waiting = {}, !.overlapped = FALSE,
                  !.down = IF missing THEN "Restart" ELSE ""]

------------------------------------------------------------------------------
Init ==
    LET first == Id(OlderTerm, 1)
        io == NewLogIOId(OwnVote, first)
    IN  /\ node = [vote |-> OwnVote, log |-> <<OlderTerm>>, purged |-> NoLogId,
                   committed |-> first, snapshot |-> NoLogId, purge_upto |-> NoLogId,
                   accepted |-> io, submitted |-> io, flushed |-> io,
                   applied |-> first, io_snapshot |-> NoLogId, building |-> FALSE,
                   out |-> <<>>, notif |-> <<>>,
                   store |-> [log |-> <<OlderTerm>>, purged |-> NoLogId, durable |-> 1,
                              pending |-> <<>>, vote |-> OwnVote, committed |-> NoLogId],
                   sm |-> [applied |-> first, snapshot |-> NoLogId, cmds |-> <<>>, views |-> {}],
                   waiting |-> {}, acked |-> NoLogId, overlapped |-> FALSE,
                   down |-> ""]
        /\ truth = <<>>
        /\ inputs = 0
        /\ crashes = 0

\* RaftCore handles an input of the outside world, which leaves it in state n.
Handle(n) ==
    /\ node.down = ""
    /\ inputs < MaxInputs
    /\ inputs' = inputs + 1
    /\ node' = RunEngineCommands(n)
    /\ UNCHANGED <<truth, crashes>>

\* write_entry, with or without a client that waits for the response.
WriteEntry(client) ==
    LET n == LeaderAppendEntries(node)
    IN  /\ Leading(node) /\ Len(node.log) < MaxIndex
        /\ Handle(IF client THEN [n EXCEPT !.waiting = @ \cup {Len(n.log)}] ELSE n)

\* Notification::ReplicationProgress: a quorum has stored the log up to i.
LeaderProgress(i, in_use) ==
    LET id == GetLogId(node, i)
    IN  /\ Leading(node)
        /\ id # NoLogId
        /\ truth # <<>> => SubSeq(node.log, 1, i) = SubSeq(truth, 1, i)
        /\ Handle(TryPurgeLog(IF id.term = OwnTerm THEN CommitEntries(node, id) ELSE node, in_use))

\* RaftMsg::AppendEntries from the later leader.
ReceiveAppendEntries(prev, len, commit) ==
    /\ truth # <<>>
    /\ prev + len <= MaxIndex
    /\ Handle(HandleAppendEntries(node, IdAt(truth, prev), SubSeq(truth, prev + 1, prev + len),
                                  IdAt(truth, commit)))

\* RaftMsg::InstallFullSnapshot from the later leader.
ReceiveSnapshot(i) ==
    LET behind == ~IOIdLt(node.accepted, NewLogIOId(LaterVote, IdAt(truth, i)))
    IN  /\ truth # <<>>
        /\ Handle([HandleInstallFullSnapshot(node, IdAt(truth, i)) EXCEPT
                      !.overlapped = @ \/ behind])

\* ExternalCommand::Snapshot
SnapshotCommand == Handle(TriggerSnapshot(node))

\* ExternalCommand::PurgeLog
PurgeCommand(i, in_use) == Handle(TriggerPurgeLog(node, i, in_use))

\* The later leader is elected.  Its log has what this node committed.
Takeover(keep, older) ==
    /\ truth = <<>>
    /\ keep \in node.committed.index .. Len(node.log)
    /\ older > 0 => OlderTail /\ Last(SubSeq(node.log, 1, keep)) = OlderTerm
    /\ keep + older <= MaxIndex
    /\ truth' = SubSeq(node.log, 1, keep)
                    \o [i \in 1..(MaxIndex - keep) |-> IF i <= older THEN OlderTerm ELSE OtherTerm]
    /\ UNCHANGED <<node, inputs, crashes>>

HandleNotification(in_use) ==
    /\ node.down = "" /\ node.notif # <<>>
    /\ node' = RunEngineCommands(Notified([node EXCEPT !.notif = Tail(@)], Head(node.notif), in_use))
    /\ UNCHANGED <<truth, inputs, crashes>>

\* The log store makes its first pending append durable and calls its callback.
Flush ==
    /\ node.down = "" /\ node.store.pending # <<>>
    /\ LET p == Head(node.store.pending)
       IN  node' = Notify([node EXCEPT !.store.pending = Tail(@), !.store.durable = p.len],
                          LocalIO(p.io))
    /\ UNCHANGED <<truth, inputs, crashes>>

WorkerStep ==
    /\ node.down = "" /\ node.sm.cmds # <<>>
    /\ node' = Work(node)
    /\ UNCHANGED <<truth, inputs, crashes>>

BuildDone ==
    /\ node.down = ""
    /\ \E id \in node.sm.views : node' = Built(node, id)
    /\ UNCHANGED <<truth, inputs, crashes>>

\* A crash and a restart, once the node follows the later leader.  How a leader
\* restarts is in the module Raft.
Restart ==
    /\ crashes < MaxCrashes
    /\ node.store.vote = LaterVote
    /\ crashes' = crashes + 1
    /\ node' = Restarted(node)
    /\ UNCHANGED <<truth, inputs>>

Index == 1..MaxIndex

Next ==
    \/ \E client \in BOOLEAN : WriteEntry(client)
    \/ \E i \in Index, in_use \in BOOLEAN : LeaderProgress(i, in_use)
    \/ \E prev, commit \in {0} \cup Index, len \in 0..MaxBatch : ReceiveAppendEntries(prev, len, commit)
    \/ \E i \in Index : ReceiveSnapshot(i)
    \/ SnapshotCommand
    \/ \E i \in Index, in_use \in BOOLEAN : PurgeCommand(i, in_use)
    \/ \E keep, older \in {0} \cup Index : Takeover(keep, older)
    \/ \E in_use \in BOOLEAN : HandleNotification(in_use)
    \/ Flush
    \/ WorkerStep
    \/ BuildDone
    \/ Restart

Spec == Init /\ [][Next]_vars

\* The log store, the worker, the snapshot task or the notification channel
\* still has something to do, which ends in a notification to the event loop.
Pending ==
    \/ node.notif # <<>> \/ node.store.pending # <<>>
    \/ node.sm.cmds # <<>> \/ node.sm.views # {}

------------------------------------------------------------------------------
\* IOProgress::validate
IOProgressValid(n) == IOIdLeq(n.flushed, n.submitted) /\ IOIdLeq(n.submitted, n.accepted)

\* IOState::validate
IOStateValid(n) ==
    /\ IOProgressValid(n)
    /\ LogIdLeq(n.io_snapshot, n.applied)
    /\ LogIdLeq(n.store.purged, n.io_snapshot)

\* RaftState::validate.  That the first log id is the purged one is how log and
\* purged are kept here.
RaftStateValid(n) ==
    /\ LogIdLeq(n.purged, n.purge_upto)
    /\ LogIdLeq(n.purge_upto, IF n.snapshot = NoLogId THEN n.committed ELSE n.snapshot)
    /\ LogIdLeq(n.snapshot, n.committed)
    /\ LogIdLeq(n.committed, IdAt(n.log, Len(n.log)))
    /\ IOStateValid(n)

\* Types, and what RaftState validates of itself, as long as the leader sends no
\* snapshot that ends before what it has sent, and RaftState knows of the last
\* snapshot: a build that ends after an installation makes it forget that.
TypeOK ==
    /\ ~node.overlapped =>
           /\ IOProgressValid(node)
           /\ node.down = "" /\ LogIdLeq(node.sm.snapshot, node.io_snapshot) => RaftStateValid(node)
    /\ {node.purged, node.committed, node.snapshot, node.purge_upto, node.applied,
        node.io_snapshot, node.acked} \subseteq LogId
    /\ {node.accepted, node.submitted, node.flushed} \subseteq IOId
    /\ Len(node.log) <= MaxIndex /\ Len(node.store.log) <= MaxIndex
    /\ node.store.durable <= Len(node.store.log)
    /\ node.sm.views \subseteq LogId /\ Cardinality(node.sm.views) <= 1
    /\ node.waiting \subseteq Index

\* RaftState is what the log store will be once the queued commands have run
\* (RaftState::io_state): with any of them blocked, no log is lost or left over.
ExpectedState ==
    LET writes == SelectSeq(node.out, LAMBDA c : c.type \in
                      {"AppendInputEntries", "TruncateLog", "PurgeLog", "SaveVote"})
        s == FoldLeft(RunCommand, node, writes).store
    IN  node.down = "" =>
            s.log = node.log /\ s.purged = node.purged /\ s.vote = node.vote

\* The commands under way take the state machine to what is committed, every
\* log once and in order (Command::Apply, sm::Command): an Apply starts where
\* the previous one, or a snapshot, ended.
AppliedOnce ==
    LET Step(at, c) ==
            CASE c.type = "InstallFullSnapshot" -> IF at < c.id.index THEN c.id.index ELSE MaxIndex + 1
              [] c.type = "Apply" /\ "already" \in DOMAIN c ->
                     IF at = c.already.index THEN c.upto.index ELSE MaxIndex + 1
              [] c.type = "Apply" ->
                     IF at = c.first.index - 1 THEN c.last.index ELSE MaxIndex + 1
              [] OTHER -> at
    IN  node.down = "" =>
            FoldLeft(Step, node.sm.applied.index, node.sm.cmds \o node.out) = node.committed.index

\* What the node takes as committed is what the cluster committed, even while
\* the vote and the logs it is derived from are still in the queue, and after a
\* restart (FollowingHandler::commit_entries, install_full_snapshot).  What the
\* worker is going to read from the log store (Worker::apply) is there and is
\* committed, however late it reads it; and so is the first log that it would
\* read if the node restarted now.
CommittedAgreed ==
    /\ truth # <<>> => node.committed = IdAt(truth, node.committed.index)
    /\ node.down = "" =>
        /\ node.sm.applied.index <= node.committed.index
        /\ node.store.purged.index <= DurableApplied(node).index
        /\ \A k \in DOMAIN node.sm.cmds :
               LET c == node.sm.cmds[k]
               IN  c.type = "Apply" =>
                       /\ Readable(node, c.first.index, c.last.index)
                       /\ truth # <<>> => \A i \in c.first.index .. c.last.index :
                                              node.store.log[i] = truth[i]

\* Whatever the leader was told is stored survives a crash at any moment, in the
\* log or in the state machine: neither a late flush nor a purge loses it.  The
\* vote of the leader that was told is saved before.
AckedDurable ==
    /\ node.acked # NoLogId => node.store.vote = LaterVote
    /\ \A i \in 1..node.acked.index :
           \/ i <= DurableApplied(node).index
           \/ /\ node.store.purged.index < i /\ i <= node.store.durable
              /\ node.store.log[i] = truth[i]

\* A restart leaves no hole between the log and what is applied.
NoHole == node.down = "" => node.purged.index <= node.committed.index /\ node.committed.index <= Len(node.log)

\* get_initial_state finds all it needs: a node that crashed starts again, without
\* such a hole.
RestartSucceeds == node.down # "Restart" /\ NoHole

\* A command only waits for what is still to come: "If there is a command that
\* waits for a callback, just return and wait for next RaftMsg" (raft_core.rs).
CallbackStillToCome == node.down = "" /\ node.out # <<>> => Pending

\* run_engine_commands runs all commands in the end, each after the condition it
\* was given, as long as the leader sends no snapshot as above.
CommandsDrain == ~node.overlapped => CallbackStillToCome

\* IOState::update_snapshot: the snapshot log id does not go back.
SnapshotAdvances == [][crashes' = crashes => LogIdLeq(node.io_snapshot, node'.io_snapshot)]_vars

\* run_command finds the first log id of an Apply.
ApplyFirstPresent == node.down # "Apply"

\* A client whose entry is applied gets its response.
ClientsAnswered == node.down = "" /\ ~Pending => \A i \in node.waiting : i > node.applied.index
==============================================================================
