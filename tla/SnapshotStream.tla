--------------------------- MODULE SnapshotStream ---------------------------
(***************************************************************************)
(* A leader sends its snapshot to one follower in chunks: ReplicationCore  *)
(* spawns send_snapshot, Chunked::send_snapshot calls install_snapshot()   *)
(* for one chunk after the other and repeats a call that failed, and       *)
(* Raft::install_snapshot() on the follower collects the chunks in the one *)
(* Streaming it has.  A call may have an effect although it failed, or     *)
(* have it later; the follower may restart and lose the Streaming; the     *)
(* leader builds newer snapshots and starts over.                          *)
(***************************************************************************)
EXTENDS Naturals, FiniteSets

CONSTANTS
    Chunks,     \* chunks of a snapshot
    MaxSnaps,   \* snapshots 1..MaxSnaps, named by their last log id
    MaxLate,    \* how many calls arrive after they timed out
    MaxFaults   \* how many answers are lost, streams cancelled, followers restarted

\* A snapshot has a first chunk, and the bounds are numbers.
ASSUME StreamAssumption ==
    /\ Chunks \in Nat \ {0} /\ MaxSnaps \in Nat \ {0}
    /\ MaxLate \in Nat /\ MaxFaults \in Nat

VARIABLES
    latest,     \* the leader's current snapshot
    task,       \* the send_snapshot task: on, its snapshot, the next offset
    callback,   \* its result on the way to ReplicationCore, if any
    matching,   \* the last log id the leader knows the follower to have
    closed,     \* replication has ended: the follower has a higher vote
    late,       \* calls that timed out and are still in the network
    streaming,  \* the follower's Streaming: snapshot id (0 for None), chunks written
    higher,     \* whether the follower has a higher vote
    installed,  \* the last snapshot it has installed and whether it had every chunk
    spent       \* faults, and the snapshots of which a call arrived late

streamVars == <<latest, task, callback, matching, closed, late, streaming, higher, installed, spent>>

Snap == 1..MaxSnaps
Offset == 0..(Chunks - 1)
None == [type |-> "none", snap |-> 0]

Call(id, offset) == [id |-> id, offset |-> offset, done |-> offset + 1 = Chunks]

StreamInit ==
    /\ latest = 1
    /\ task = [on |-> FALSE, snap |-> 0, offset |-> 0]
    /\ callback = None /\ matching = 0 /\ closed = FALSE
    /\ late = {}
    /\ streaming = [id |-> 0, written |-> {}]
    /\ higher = FALSE
    /\ installed = [last |-> 0, whole |-> TRUE]
    /\ spent = [late |-> 0, faults |-> 0, stale |-> {}]

\* Variant of Mismatch that takes a chunk of another stream wherever it starts.
MismatchNever(c) == FALSE

(* Chunked::receive_snapshot(): a chunk of another snapshot than the one   *)
(* being received must be the first.                                       *)
Mismatch(c) == streaming.id # c.id /\ c.offset # 0

(* The Streaming after receive(): it seeks to the offset of the chunk. *)
Received(c) ==
    [id |-> c.id, written |-> {c.offset} \cup (IF streaming.id = c.id THEN streaming.written ELSE {})]

(* Raft::install_snapshot() and install_full_snapshot(): the vote, the     *)
(* chunk, and with the last chunk the installation, which the engine skips *)
(* if the snapshot is not newer than what it has committed.                *)
Receive(c) ==
    IF higher \/ Mismatch(c) THEN UNCHANGED <<streaming, installed>>
    ELSE /\ streaming' = IF c.done THEN [id |-> 0, written |-> {}] ELSE Received(c)
         /\ installed' = IF c.done /\ c.id > installed.last
                         THEN [last |-> c.id, whole |-> Received(c).written = Offset]
                         ELSE installed

(* The next offset after an answer. *)
\* Variant of NextOffset that repeats the chunk after a mismatch.
NextOffsetSame(c) == IF Mismatch(c) THEN c.offset ELSE c.offset + 1

NextOffset(c) == IF Mismatch(c) THEN 0 ELSE c.offset + 1
-----------------------------------------------------------------------------
BuildSnapshot ==
    /\ latest < MaxSnaps
    /\ latest' = latest + 1
    /\ UNCHANGED <<task, callback, matching, closed, late, streaming, higher, installed, spent>>

(* ReplicationCore::stream_snapshot(): snapshot_state is set until the     *)
(* callback has been handled.                                              *)
StreamSnapshot ==
    /\ ~closed /\ ~task.on /\ callback = None /\ matching < latest
    /\ task' = [on |-> TRUE, snap |-> latest, offset |-> 0]
    /\ UNCHANGED <<latest, callback, matching, closed, late, streaming, higher, installed, spent>>

(* A call of Chunked::send_snapshot that is answered. *)
SendChunk ==
    LET c == Call(task.snap, task.offset)
        ended == higher \/ (~Mismatch(c) /\ c.done)
    IN  /\ task.on
        /\ Receive(c)
        /\ task' = IF ended THEN [on |-> FALSE, snap |-> 0, offset |-> 0]
                   ELSE [task EXCEPT !.offset = NextOffset(c)]
        /\ callback' = IF ~ended THEN None ELSE [type |-> IF higher THEN "HigherVote" ELSE "Ok", snap |-> task.snap]
        /\ UNCHANGED <<latest, matching, closed, late, higher, spent>>

(* A call that is received but whose answer is lost: the loop goes on with *)
(* the same chunk.                                                         *)
LoseAnswer ==
    /\ task.on /\ spent.faults < MaxFaults
    /\ Receive(Call(task.snap, task.offset))
    /\ spent' = [spent EXCEPT !.faults = @ + 1]
    /\ UNCHANGED <<latest, task, callback, matching, closed, late, higher>>

(* A call that times out before it is received, and one that arrives after. *)
DelayCall ==
    /\ task.on /\ spent.late < MaxLate
    /\ late' = late \cup {Call(task.snap, task.offset)}
    /\ spent' = [spent EXCEPT !.late = @ + 1]
    /\ UNCHANGED <<latest, task, callback, matching, closed, streaming, higher, installed>>

ArriveLate(c) ==
    /\ late' = late \ {c}
    /\ Receive(c)
    /\ spent' = [spent EXCEPT !.stale = @ \cup {c.id}]
    /\ UNCHANGED <<latest, task, callback, matching, closed, higher>>

(* The replication stream is rebuilt: tx_cancel is dropped and the task    *)
(* ends before its next call.                                              *)
CancelStream ==
    /\ task.on /\ spent.faults < MaxFaults
    /\ task' = [on |-> FALSE, snap |-> 0, offset |-> 0]
    /\ spent' = [spent EXCEPT !.faults = @ + 1]
    /\ UNCHANGED <<latest, callback, matching, closed, late, streaming, higher, installed>>

RestartFollower ==
    /\ spent.faults < MaxFaults
    /\ streaming' = [id |-> 0, written |-> {}]
    /\ spent' = [spent EXCEPT !.faults = @ + 1]
    /\ UNCHANGED <<latest, task, callback, matching, closed, late, higher, installed>>

RaiseVote ==
    /\ ~higher /\ spent.faults < MaxFaults
    /\ higher' = TRUE
    /\ spent' = [spent EXCEPT !.faults = @ + 1]
    /\ UNCHANGED <<latest, task, callback, matching, closed, late, streaming, installed>>

(* The progress handle_snapshot_callback() reports. *)
Acked == IF callback.type = "Ok" THEN callback.snap ELSE matching

HandleSnapshotCallback ==
    /\ callback # None
    /\ closed' = (closed \/ callback.type = "HigherVote")
    /\ matching' = Acked
    /\ callback' = None
    /\ UNCHANGED <<latest, task, late, streaming, higher, installed, spent>>

StreamNext ==
    \/ BuildSnapshot
    \/ StreamSnapshot
    \/ SendChunk
    \/ LoseAnswer
    \/ DelayCall
    \/ \E c \in late : ArriveLate(c)
    \/ CancelStream
    \/ RestartFollower
    \/ RaiseVote
    \/ HandleSnapshotCallback

StreamSpec == StreamInit /\ [][StreamNext]_streamVars

(* The send loop sleeps a millisecond and calls again, whatever happened;  *)
(* only finitely many calls fail.                                          *)
StreamFairness ==
    /\ WF_streamVars(StreamSnapshot) /\ WF_streamVars(SendChunk) /\ WF_streamVars(HandleSnapshotCallback)

FairStreamSpec == StreamSpec /\ StreamFairness
-----------------------------------------------------------------------------
StreamTypeOK ==
    /\ latest \in Snap /\ matching \in 0..latest
    /\ task \in [on : BOOLEAN, snap : 0..latest, offset : Offset] /\ (task.on => task.snap \in Snap)
    /\ callback \in [type : {"none", "Ok", "HigherVote"}, snap : 0..latest]
    /\ late \subseteq [id : Snap, offset : Offset, done : BOOLEAN]
    /\ streaming \in [id : 0..MaxSnaps, written : SUBSET Offset]
    /\ installed \in [last : 0..MaxSnaps, whole : BOOLEAN]
    /\ closed \in BOOLEAN /\ higher \in BOOLEAN
    /\ spent \in [late : 0..MaxLate, faults : 0..MaxFaults, stale : SUBSET Snap]

(* The send loop is never ahead of the stream it feeds: where the follower *)
(* receives the snapshot being sent, and no call of it came late, it has   *)
(* every chunk before the next offset.                                     *)
SentIsWritten ==
    task.on /\ streaming.id = task.snap /\ task.snap \notin spent.stale =>
        \A o \in Offset : o < task.offset => o \in streaming.written

(* Chunked::receive_snapshot() returns a snapshot only with every chunk in *)
(* it, through lost answers, cancelled streams, restarts of the follower   *)
(* and chunks of other snapshots in between, as long as no call for the    *)
(* same snapshot arrives after it timed out.                               *)
(* What the leader records for the follower after a snapshot (and may then *)
(* commit or purge by) is installed there.                                 *)
AckedIsInstalled ==
    /\ installed.whole \/ installed.last \in spent.stale
    /\ matching <= installed.last
    /\ callback.type = "Ok" => callback.snap <= installed.last

(* Every stream ends, and the follower reaches the leader's last snapshot  *)
(* unless it follows another leader: the offset goes back to the first     *)
(* chunk when the follower has forgotten the stream.                       *)
FollowerCatchesUp == <>[](closed \/ higher \/ matching = latest)

(* The inductive invariant behind AckedIsInstalled. *)
StreamInv == StreamTypeOK /\ SentIsWritten /\ AckedIsInstalled

(* What the documentation of receive_snapshot() says: if the snapshot is   *)
(* done receiving, the snapshot is returned.                               *)
SnapshotWhole == installed.whole
=============================================================================
