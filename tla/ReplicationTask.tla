--------------------------- MODULE ReplicationTask ---------------------------
(***************************************************************************)
(* One ReplicationCore and the RaftCore it works for, with everything that *)
(* lies between them: the channel of Replicate events, the notifications,  *)
(* the task that sends a snapshot, the backoff after Unreachable and the   *)
(* hint after PayloadTooLarge, until RaftCore drops the channel and waits  *)
(* for the task to end (remove_all_replication).                           *)
(*                                                                         *)
(* A log id is its index.  The target has the leader's logs up to what     *)
(* RaftCore knows to match: the search for it is in Engine.                *)
(***************************************************************************)
EXTENDS Naturals, SequencesExt, FiniteSetsExt

CONSTANTS
    MaxPayloadEntries, \* Config::max_payload_entries
    Limit,       \* entries the network takes in one request
    HintTTL,     \* the requests a hint is used for, 10 in the code
    Networks,    \* the networks to explore, a subset of the domain of Network
    MaxLog,      \* bound: logs of the leader
    MaxFaults    \* bound: failed calls to a target that is not cut off

VARIABLES
    lead,        \* RaftCore: last, committed and purged log, what the target is known to
                 \* match, what is in flight to it, and whether it leads
    events,      \* the channel of Replicate events
    closed,      \* has RaftCore dropped its sender
    notes,       \* notifications on the way to RaftCore
    pc,          \* the task: "take", "rpc", "backoff", "drain", "try", "gone"
    next,        \* next_action
    sending,     \* the data of the call it waits for, and the entries in it
    backoff,     \* backoff.is_some()
    hint,        \* entries_hint
    snapshot,    \* snapshot_state.is_some()
    snapTask,    \* the snapshot the task started for it sends, 0 if there is none
    network,     \* the network in use
    cut,         \* is the target cut off
    faults

rvars == <<lead, events, closed, notes, pc, next, sending, backoff, hint, snapshot, snapTask, network, cut, faults>>

(* Data, the events of Replicate and the notifications *)
None == [type |-> "None"]
Committed == [type |-> "Committed"]
Logs(prev, last) == [type |-> "Logs", prev |-> prev, last |-> last]
Snapshot == [type |-> "Snapshot"]
Callback(res, upto) == [type |-> "SnapshotCallback", res |-> res, upto |-> upto]

(* The errors of a call, and of a full_snapshot() *)
RPCError == {"Timeout", "Unreachable", "PayloadTooLarge", "Network", "RemoteError"}
StreamingError == {"Closed", "StorageError", "Timeout", "Unreachable", "Network"}

(* From<RPCError> for StreamingError: the others are unreachable!() *)
ToStreaming(errs) == errs \cap {"Timeout", "Unreachable", "Network"}

(* From<StreamingError> for ReplicationError *)
ToReplicationError(e) == IF e \in {"Closed", "StorageError"} THEN e ELSE "RPCError"

Data ==
    {Committed, Snapshot} \cup [type : {"Logs"}, prev : 0..MaxLog, last : 0..MaxLog]
    \cup [type : {"SnapshotCallback"}, res : {"Ok", "HigherVote"} \cup StreamingError, upto : 0..MaxLog]

HasPayload(d) == d.type \in {"Logs", "Snapshot", "SnapshotCallback"}

Progress(upto) == [type |-> "Ok", upto |-> upto]
ProgressError == [type |-> "Err", upto |-> 0]
HigherVote == [type |-> "HigherVote", upto |-> 0]
StorageError == [type |-> "StorageError", upto |-> 0]

NoCall == [data |-> None, upto |-> 0]

(* ReplicationHint: n entries, as long as ttl lasts *)
ReplicationHint == [n : 0..Limit, ttl : 0..HintTTL]

(* append_entries() of the networks of the examples: the errors it may      *)
(* return.  Any call may end in Timeout.                                    *)
MemstoreRpc == {"Unreachable", "Network", "RemoteError"}
RocksRpc == {"Network"}
GrpcRpc == {"Unreachable", "Network"}
NetworkV2Rpc == {"Unreachable"}
OpendalRpc == {"Unreachable"}
SingleRpc == {"Unreachable", "RemoteError"}

(* full_snapshot(): the results it may have.  Chunked::send_snapshot, which *)
(* the first version of RaftNetwork uses, goes on after an error.  The call *)
(* of the gRPC network waits for an answer before it sends the first chunk, *)
(* and the service answers after the last.                                  *)
ChunkedSnapshot == {"Ok", "HigherVote"}
NetworkV2Snapshot == {"Ok", "HigherVote"} \cup ToStreaming(NetworkV2Rpc)
OpendalSnapshot == {"Ok", "HigherVote"} \cup ToStreaming(OpendalRpc)
GrpcSnapshot == {"Unreachable", "Network"}

Network ==
    [memstore |-> [rpc |-> MemstoreRpc, snapshot |-> ChunkedSnapshot, cancels |-> TRUE],
     rocks    |-> [rpc |-> RocksRpc, snapshot |-> ChunkedSnapshot, cancels |-> TRUE],
     single   |-> [rpc |-> SingleRpc, snapshot |-> ChunkedSnapshot, cancels |-> TRUE],
     grpc     |-> [rpc |-> GrpcRpc, snapshot |-> GrpcSnapshot, cancels |-> FALSE],
     v2       |-> [rpc |-> NetworkV2Rpc, snapshot |-> NetworkV2Snapshot, cancels |-> FALSE],
     opendal  |-> [rpc |-> OpendalRpc, snapshot |-> OpendalSnapshot, cancels |-> FALSE]]

Init ==
    /\ network \in Networks
    /\ lead = [last |-> 1, committed |-> 0, purged |-> 0, matching |-> 0, inflight |-> None, leads |-> TRUE]
    /\ events = <<>> /\ closed = FALSE /\ notes = <<>>
    /\ pc = "take" /\ next = None /\ sending = NoCall
    /\ backoff = FALSE /\ hint = [n |-> 0, ttl |-> 0]
    /\ snapshot = FALSE /\ snapTask = 0
    /\ cut = FALSE /\ faults = 0

-----------------------------------------------------------------------------
(* RaftCore, until it waits for the task. *)
task == <<pc, next, sending, backoff, hint, snapshot, snapTask, network, faults>>

AppendLog ==
    /\ lead.leads /\ ~closed /\ lead.last < MaxLog
    /\ lead' = [lead EXCEPT !.last = @ + 1]
    /\ UNCHANGED <<events, closed, notes, task, cut>>

(* Variant of PurgeLog: logs in flight are not looked at. *)
PurgeLogInUse(k) ==
    /\ lead.leads /\ ~closed /\ k > lead.purged /\ k <= lead.committed
    /\ lead' = [lead EXCEPT !.purged = k]
    /\ UNCHANGED <<events, closed, notes, task, cut>>

(* try_purge_log: logs in flight are not purged. *)
PurgeLog(k) ==
    /\ lead.leads /\ ~closed /\ k > lead.purged /\ k <= lead.committed
    /\ lead.inflight.type = "Logs" => lead.inflight.prev >= k
    /\ lead' = [lead EXCEPT !.purged = k]
    /\ UNCHANGED <<events, closed, notes, task, cut>>

(* A send to the channel, which fails once the task has returned. *)
Emit(e) == IF pc = "gone" THEN events ELSE Append(events, e)

(* ProgressEntry::next_send *)
NextSend ==
    IF lead.matching < lead.purged THEN Snapshot
    ELSE Logs(lead.matching, Min({lead.last, lead.matching + MaxPayloadEntries}))

(* initiate_replication, and Command::Replicate *)
InitiateReplication ==
    /\ lead.leads /\ ~closed
    /\ lead.inflight = None /\ lead.matching < lead.last
    /\ lead' = [lead EXCEPT !.inflight = NextSend]
    /\ events' = Emit(NextSend)
    /\ UNCHANGED <<closed, notes, task, cut>>

(* Command::ReplicateCommitted, after a quorum has one more log *)
ReplicateCommitted ==
    /\ lead.leads /\ ~closed /\ lead.committed < lead.last
    /\ lead' = [lead EXCEPT !.committed = @ + 1]
    /\ events' = Emit(Committed)
    /\ UNCHANGED <<closed, notes, task, cut>>

(* Inflight::ack: what is left of the range. *)
Ack(inflight, upto) ==
    IF inflight.type = "Logs" /\ upto < inflight.last THEN Logs(upto, inflight.last) ELSE None

(* The notifications ReplicationProgress, HigherVote and StorageError.  The *)
(* last makes RaftCore quit.                                               *)
HandleNotification ==
    LET n == Head(notes)
    IN  /\ notes # <<>> /\ ~closed
        /\ notes' = Tail(notes)
        /\ lead' = IF ~lead.leads THEN lead
                   ELSE CASE n.type = "Ok" -> [lead EXCEPT !.matching = Max({@, n.upto}),
                                                           !.inflight = Ack(@, n.upto)]
                          [] n.type = "Err" -> [lead EXCEPT !.inflight = None]
                          [] OTHER -> [lead EXCEPT !.leads = FALSE]
        /\ closed' = (n.type = "StorageError")
        /\ UNCHANGED <<events, task, cut>>

(* remove_all_replication: the streams are rebuilt, or RaftCore ends. *)
RemoveAllReplication ==
    /\ ~closed /\ closed' = TRUE
    /\ UNCHANGED <<lead, events, notes, task, cut>>

CutOff ==
    /\ ~cut /\ cut' = TRUE
    /\ UNCHANGED <<lead, events, closed, notes, task>>

-----------------------------------------------------------------------------
core == <<lead, closed, network, cut>>

(* The end of a turn: drain_events_with_backoff *)
DrainWithBackoff(b) == IF b THEN "backoff" ELSE "drain"

(* The range to send of a range of logs: ReplicationHint::get and the reader *)
(* may make it shorter.                                                      *)
Sendable(d) ==
    IF d.type = "Committed" THEN {0}
    ELSE d.prev + 1 .. IF hint.ttl > 0 THEN Min({d.last, d.prev + hint.n}) ELSE d.last

(* send_log_entries, up to the call *)
SendLogEntries ==
    /\ pc = "take" /\ next.type \in {"Committed", "Logs"}
    /\ \E upto \in Sendable(next) : sending' = [data |-> next, upto |-> upto]
    /\ hint' = [hint EXCEPT !.ttl = IF @ > 0 THEN @ - 1 ELSE 0]
    /\ next' = None /\ pc' = "rpc"
    /\ UNCHANGED <<core, events, notes, backoff, snapshot, snapTask, faults>>

(* main() with nothing to do *)
NoAction ==
    /\ pc = "take" /\ next = None
    /\ pc' = DrainWithBackoff(backoff)
    /\ UNCHANGED <<core, events, notes, next, sending, backoff, hint, snapshot, snapTask, faults>>

(* stream_snapshot; there is a snapshot of what is purged. *)
StreamSnapshot ==
    /\ pc = "take" /\ next = Snapshot
    /\ snapshot' = TRUE /\ snapTask' = lead.purged /\ next' = None
    /\ backoff' = FALSE /\ pc' = "drain"
    /\ UNCHANGED <<core, events, notes, sending, hint, faults>>

(* The end of a turn with a result, as in main(): notes, the next action,  *)
(* and the backoff.                                                        *)
Turn(news, n, b) ==
    /\ notes' = notes \o news
    /\ next' = n /\ sending' = NoCall /\ backoff' = b /\ pc' = DrainWithBackoff(b)
    /\ UNCHANGED events

(* The task returns: what it holds is dropped, with tx_cancel and the       *)
(* receiver of the channel.                                                 *)
Return(news) ==
    /\ notes' = notes \o news
    /\ pc' = "gone" /\ next' = None /\ sending' = NoCall /\ backoff' = FALSE
    /\ snapshot' = FALSE /\ events' = <<>>

(* An RPCError that is not retried: after Unreachable the task backs off. *)
BacksOff(err) == backoff \/ err = "Unreachable"

(* send_progress_error, for data RaftCore waits for *)
ErrorOf(d) == IF HasPayload(d) THEN <<ProgressError>> ELSE <<>>

(* handle_snapshot_callback *)
HandleSnapshotCallback ==
    /\ pc = "take" /\ next.type = "SnapshotCallback"
    /\ CASE next.res = "Ok" -> Turn(<<Progress(next.upto)>>, None, FALSE) /\ snapshot' = FALSE
         [] next.res = "HigherVote" -> Return(<<HigherVote>>)
         [] OTHER ->
                IF ToReplicationError(next.res) = "RPCError"
                THEN Turn(ErrorOf(next), None, BacksOff(next.res)) /\ snapshot' = FALSE
                ELSE Return(IF next.res = "StorageError" THEN <<StorageError>> ELSE <<>>)
    /\ UNCHANGED <<core, hint, snapTask, faults>>

(* next_action_to_send *)
Rest(d, upto) == IF upto < d.last THEN Logs(upto, d.last) ELSE None

Answer(d) == sending.data = d /\ pc = "rpc" /\ UNCHANGED <<core, snapTask>>

Entries == IF sending.data.type = "Logs" THEN sending.upto - sending.data.prev ELSE 0

Succeed ==
    /\ Answer(sending.data) /\ ~cut /\ Entries <= Limit
    /\ IF sending.data = Committed THEN Turn(<<>>, None, FALSE)
       ELSE Turn(<<Progress(sending.upto)>>, Rest(sending.data, sending.upto), FALSE)
    /\ UNCHANGED <<hint, snapshot, faults>>

(* Variants of TooLarge: the hint is not kept; RaftCore is told as well. *)
TooLargeForgotten ==
    /\ Answer(sending.data) /\ ~cut /\ Entries > Limit
    /\ Turn(<<>>, sending.data, backoff)
    /\ UNCHANGED <<hint, snapshot, faults>>

TooLargeReported ==
    /\ Answer(sending.data) /\ ~cut /\ Entries > Limit
    /\ hint' = [n |-> Limit, ttl |-> HintTTL]
    /\ Turn(<<ProgressError>>, sending.data, backoff)
    /\ UNCHANGED <<snapshot, faults>>

(* PayloadTooLarge: update_hint, and the logs are sent again. *)
TooLarge ==
    /\ Answer(sending.data) /\ ~cut /\ Entries > Limit
    /\ hint' = [n |-> Limit, ttl |-> HintTTL]
    /\ Turn(<<>>, sending.data, backoff)
    /\ UNCHANGED <<snapshot, faults>>

(* A call that times out or fails *)
Fail(err) ==
    /\ Answer(sending.data) /\ err \in {"Timeout"} \cup Network[network].rpc
    /\ cut \/ faults < MaxFaults
    /\ faults' = IF cut THEN faults ELSE faults + 1
    /\ Turn(ErrorOf(sending.data), None, BacksOff(err))
    /\ UNCHANGED <<hint, snapshot>>

(* A higher vote, or the log store fails: the task ends. *)
Quit(note) ==
    /\ Answer(sending.data) /\ faults < MaxFaults /\ faults' = faults + 1
    /\ note = HigherVote => ~cut
    /\ Return(<<note>>)
    /\ UNCHANGED hint

-----------------------------------------------------------------------------
(* process_event *)
ProcessEvent(e) == IF e # Committed THEN e ELSE IF next = None THEN Committed ELSE next

Recv ==
    /\ events # <<>>
    /\ events' = Tail(events) /\ next' = ProcessEvent(Head(events))

Closed == closed /\ events = <<>>

ReturnClosed == Closed /\ Return(<<>>)

(* backoff_drain_events *)
BackoffDrainEvents ==
    /\ pc = "backoff"
    /\ \/ Recv /\ UNCHANGED <<pc, notes, sending, backoff, snapshot>>
       \/ ReturnClosed
       \/ pc' = "drain" /\ UNCHANGED <<events, next, notes, sending, backoff, snapshot>>
    /\ UNCHANGED <<core, hint, snapTask, faults>>

(* drain_events blocks unless there is a next action; try_drain_events *)
DrainEvents ==
    /\ pc = "drain"
    /\ \/ next # None /\ pc' = "try" /\ UNCHANGED <<events, next, notes, sending, backoff, snapshot>>
       \/ next = None /\ Recv /\ pc' = "try" /\ UNCHANGED <<notes, sending, backoff, snapshot>>
       \/ next = None /\ ReturnClosed
    /\ UNCHANGED <<core, hint, snapTask, faults>>

TryDrainEvents ==
    /\ pc = "try"
    /\ \/ Recv /\ UNCHANGED <<pc, notes, sending, backoff, snapshot>>
       \/ ReturnClosed
       \/ events = <<>> /\ ~Closed /\ pc' = "take" /\ UNCHANGED <<events, next, notes, sending, backoff, snapshot>>
    /\ UNCHANGED <<core, hint, snapTask, faults>>

(* send_snapshot ends: with a result for the ReplicationCore if the channel *)
(* still has a sender, or because tx_cancel was dropped, where the network  *)
(* looks at it.                                                             *)
SendSnapshot(res) ==
    /\ snapTask > 0 /\ res \in Network[network].snapshot
    /\ snapshot \/ ~Network[network].cancels
    /\ ~cut /\ (res = "Ok" \/ faults < MaxFaults)
    /\ faults' = IF res = "Ok" THEN faults ELSE faults + 1
    /\ snapTask' = 0
    /\ events' = IF closed THEN events ELSE Emit(Callback(res, snapTask))
    /\ UNCHANGED <<core, notes, pc, next, sending, backoff, hint, snapshot>>

CancelSnapshot ==
    /\ snapTask > 0 /\ ~snapshot /\ Network[network].cancels
    /\ snapTask' = 0
    /\ UNCHANGED <<core, events, notes, pc, next, sending, backoff, hint, snapshot, faults>>

-----------------------------------------------------------------------------
RaftCore ==
    \/ AppendLog \/ (\E k \in 1..lead.last : PurgeLog(k)) \/ ReplicateCommitted \/ RemoveAllReplication

Main ==
    \/ SendLogEntries \/ NoAction \/ StreamSnapshot \/ HandleSnapshotCallback
    \/ Succeed \/ TooLarge \/ (\E err \in RPCError : Fail(err)) \/ Quit(HigherVote) \/ Quit(StorageError)
    \/ BackoffDrainEvents \/ DrainEvents \/ TryDrainEvents

Next ==
    \/ RaftCore \/ InitiateReplication \/ HandleNotification \/ CutOff \/ Main \/ CancelSnapshot
    \/ \E res \in {"Ok", "HigherVote"} \cup StreamingError : SendSnapshot(res)

(* RaftCore and the task are polled, calls have a timeout and a backoff    *)
(* ends.  A snapshot to a target that is not cut off is sent in the end.   *)
Fairness ==
    /\ WF_rvars(InitiateReplication) /\ WF_rvars(HandleNotification)
    /\ WF_rvars(Main) /\ WF_rvars(SendSnapshot("Ok"))

FairSpec == Init /\ [][Next]_rvars /\ Fairness
-----------------------------------------------------------------------------
TypeOK ==
    /\ network \in Networks
    /\ next \in Data \cup {None} /\ sending.data \in Data \cup {None}
    /\ Range(events) \subseteq Data
    /\ hint \in ReplicationHint
    /\ lead.matching <= lead.last /\ lead.purged <= lead.last

(* The debug assertions of process_event, through retries, partial sends,  *)
(* backoff and snapshots that fail: no data while other data is waiting,   *)
(* a callback only while a snapshot is being sent, nothing else then.      *)
OneDataInFlight ==
    /\ TypeOK
    /\ pc \in {"backoff", "drain", "try"} /\ events # <<>> /\ HasPayload(Head(events)) =>
           /\ ~HasPayload(next)
           /\ snapshot <=> Head(events).type = "SnapshotCallback"

(* A task never has to send a log that has been purged, however often the  *)
(* range is sent again: what RaftCore takes to be in flight, and therefore  *)
(* keeps (is_log_range_inflight), covers what the task has still to read.  *)
LogsKept ==
    lead.leads /\ ~closed =>
        \A d \in {next, IF pc = "rpc" THEN sending.data ELSE None} \cup Range(events) :
            d.type = "Logs" => d.prev >= lead.purged

(* What remove_all_replication awaits: once RaftCore has dropped the        *)
(* channel the task ends, in backoff, with the target cut off and in the    *)
(* middle of a snapshot too ("ReplicationCore replies on the `close` event  *)
(* to shutdown").  The target of a leader that goes on gets every log, in   *)
(* requests of the size the network takes, unless it is cut off or has to   *)
(* get a snapshot through the gRPC network.                                 *)
TaskServes ==
    /\ closed ~> (pc = "gone")
    /\ <>[](pc = "gone" \/ closed \/ cut \/ ~lead.leads \/ lead.matching = lead.last
           \/ (network = "grpc" /\ snapTask > 0))
=============================================================================
