------------------------ MODULE SnapshotStreamProofs -------------------------
(***************************************************************************)
(* What SnapshotStream promises of a chunked snapshot transfer, for any    *)
(* number of chunks, snapshots, late calls and faults.                     *)
(***************************************************************************)
EXTENDS SnapshotStream, TLAPS

\* A leader that has sent nothing satisfies the inductive invariant.
LEMMA StreamInvInit ==
    ASSUME StreamInit PROVE StreamInv
  <1>1. 0 \in Offset /\ 1 \in Snap
    BY StreamAssumption DEF Offset, Snap
  <1>2. late \subseteq [id : Snap, offset : Offset, done : BOOLEAN]
    BY DEF StreamInit
  <1>3. /\ latest \in Snap /\ matching \in 0..latest
        /\ task \in [on : BOOLEAN, snap : 0..latest, offset : Offset] /\ ~task.on
        /\ callback \in [type : {"none", "Ok", "HigherVote"}, snap : 0..latest]
    BY <1>1 DEF StreamInit, None
  <1>4. /\ streaming \in [id : 0..MaxSnaps, written : SUBSET Offset]
        /\ installed \in [last : 0..MaxSnaps, whole : BOOLEAN]
        /\ spent \in [late : 0..MaxLate, faults : 0..MaxFaults, stale : SUBSET Snap]
    BY StreamAssumption DEF StreamInit
  <1>5. StreamTypeOK
    BY <1>2, <1>3, <1>4 DEF StreamInit, StreamTypeOK
  <1>6. SentIsWritten /\ AckedIsInstalled
    BY DEF StreamInit, SentIsWritten, AckedIsInstalled, None
  <1>. QED
    BY <1>5, <1>6 DEF StreamInv

\* What Streaming::receive leaves of a chunk that has a place in its snapshot.
LEMMA ReceivedType ==
    ASSUME StreamTypeOK, NEW c \in [id : Snap, offset : Offset, done : BOOLEAN]
    PROVE  /\ Received(c) \in [id : 0..MaxSnaps, written : SUBSET Offset]
           /\ Received(c).id = c.id /\ c.offset \in Received(c).written
           /\ streaming.id = c.id => streaming.written \subseteq Received(c).written
  BY DEF StreamTypeOK, Received, Snap

\* A call of install_snapshot(), early, late or repeated, keeps the follower's
\* types, and installs nothing older than what is installed.
LEMMA ReceiveType ==
    ASSUME StreamTypeOK, NEW c \in [id : Snap, offset : Offset, done : BOOLEAN], Receive(c)
    PROVE  /\ streaming' \in [id : 0..MaxSnaps, written : SUBSET Offset]
           /\ installed' \in [last : 0..MaxSnaps, whole : BOOLEAN]
           /\ installed.last <= installed'.last
           /\ installed' # installed => installed'.last = c.id
  <1>1. CASE higher \/ Mismatch(c)
    BY <1>1, StreamAssumption DEF Receive, StreamTypeOK
  <1>2. CASE ~(higher \/ Mismatch(c))
    <2>1. streaming' \in [id : 0..MaxSnaps, written : SUBSET Offset]
      BY <1>2, ReceivedType, StreamAssumption DEF Receive
    <2>2. CASE c.done /\ c.id > installed.last
      BY <1>2, <2>1, <2>2, StreamAssumption DEF Receive, StreamTypeOK, Snap
    <2>3. CASE ~(c.done /\ c.id > installed.last)
      BY <1>2, <2>1, <2>3, StreamAssumption DEF Receive, StreamTypeOK
    <2>. QED
      BY <2>2, <2>3
  <1>. QED
    BY <1>1, <1>2

\* A call that is not late adds its chunk behind all chunks before it.
LEMMA SendChunkWrites ==
    ASSUME StreamInv, task.on, task.snap \notin spent.stale,
           ~Mismatch(Call(task.snap, task.offset))
    PROVE  \A o \in Offset : o <= task.offset => o \in Received(Call(task.snap, task.offset)).written
  <1>. DEFINE c == Call(task.snap, task.offset)
  <1>. SUFFICES ASSUME NEW o \in Offset, o <= task.offset PROVE o \in Received(c).written
    OBVIOUS
  <1>1. task.offset \in Offset /\ c.id = task.snap /\ c.offset = task.offset
    BY DEF StreamInv, StreamTypeOK, Call
  <1>2. CASE o = task.offset
    BY <1>1, <1>2 DEF Received
  <1>3. CASE o # task.offset
    <2>1. o < task.offset /\ task.offset # 0
      BY <1>1, <1>3, StreamAssumption DEF Offset
    <2>2. streaming.id = task.snap
      BY <1>1, <2>1 DEF Mismatch
    <2>3. o \in streaming.written
      BY <2>1, <2>2 DEF StreamInv, SentIsWritten
    <2>. QED
      BY <1>1, <2>2, <2>3 DEF Received
  <1>. QED
    BY <1>2, <1>3

\* A call of the task that holds the stream, whether or not its answer comes
\* back, leaves what the follower has received up to the chunk it sent, or the
\* whole snapshot installed.
LEMMA OwnCall ==
    ASSUME StreamInv, task.on, Receive(Call(task.snap, task.offset))
    PROVE  /\ task.snap \notin spent.stale /\ streaming'.id = task.snap =>
                  \A o \in Offset : o < task.offset => o \in streaming'.written
           /\ task.snap \notin spent.stale /\ streaming'.id = task.snap
                  /\ ~Mismatch(Call(task.snap, task.offset)) /\ ~higher =>
                  \A o \in Offset : o <= task.offset => o \in streaming'.written
           /\ installed'.whole \/ installed'.last \in spent.stale
  <1>. DEFINE c == Call(task.snap, task.offset)
  <1>1. /\ c \in [id : Snap, offset : Offset, done : BOOLEAN]
        /\ c.id = task.snap /\ c.offset = task.offset /\ c.done = (task.offset + 1 = Chunks)
        /\ task.snap # 0
    BY DEF StreamInv, StreamTypeOK, Call, Snap
  <1>2. CASE higher \/ Mismatch(c)
    BY <1>2 DEF Receive, StreamInv, SentIsWritten, AckedIsInstalled
  <1>3. CASE ~(higher \/ Mismatch(c))
    <2>1. streaming' = IF c.done THEN [id |-> 0, written |-> {}] ELSE Received(c)
      BY <1>3 DEF Receive
    <2>2. installed' = IF c.done /\ c.id > installed.last
                       THEN [last |-> c.id, whole |-> Received(c).written = Offset] ELSE installed
      BY <1>3 DEF Receive
    <2>3. task.snap \notin spent.stale =>
              \A o \in Offset : o <= task.offset => o \in Received(c).written
      BY <1>3, SendChunkWrites
    <2>4. task.snap \notin spent.stale /\ c.done => Received(c).written = Offset
      <3>. SUFFICES ASSUME task.snap \notin spent.stale, c.done PROVE Received(c).written = Offset
        OBVIOUS
      <3>1. Offset \subseteq Received(c).written
        BY <1>1, <2>3, StreamAssumption DEF Offset
      <3>2. Received(c).written \subseteq Offset
        BY <1>1, ReceivedType DEF StreamInv
      <3>. QED
        BY <3>1, <3>2
    <2>5. task.snap \notin spent.stale /\ streaming'.id = task.snap =>
              \A o \in Offset : o <= task.offset => o \in streaming'.written
      BY <1>1, <2>1, <2>3
    <2>6. installed'.whole \/ installed'.last \in spent.stale
      BY <1>1, <2>2, <2>4 DEF StreamInv, AckedIsInstalled
    <2>7. \A o \in Offset : o < task.offset => o <= task.offset
      BY <1>1, StreamAssumption DEF Offset
    <2>. QED
      BY <2>5, <2>6, <2>7
  <1>. QED
    BY <1>2, <1>3

\* The bounds on what the leader holds grow with its last snapshot.
LEMMA LatestGrows ==
    ASSUME StreamTypeOK, latest' \in Snap, latest <= latest',
           UNCHANGED <<task, callback, matching>>
    PROVE  /\ matching' \in 0..latest'
           /\ task' \in [on : BOOLEAN, snap : 0..latest', offset : Offset]
           /\ task'.on => task'.snap \in Snap
           /\ callback' \in [type : {"none", "Ok", "HigherVote"}, snap : 0..latest']
  <1>1. 0..latest \subseteq 0..latest'
    BY StreamAssumption DEF StreamTypeOK, Snap
  <1>. QED
    BY <1>1 DEF StreamTypeOK

\* An answered call: the offset moves on behind a chunk that was taken, and goes
\* back to the first chunk after a mismatch.
LEMMA SendChunkKeeps ==
    ASSUME StreamInv, SendChunk PROVE StreamInv'
  <1>. DEFINE c == Call(task.snap, task.offset)
              ended == higher \/ (~Mismatch(c) /\ c.done)
  <1>1. /\ c \in [id : Snap, offset : Offset, done : BOOLEAN]
        /\ c.id = task.snap /\ c.offset = task.offset /\ c.done = (task.offset + 1 = Chunks)
        /\ task.on /\ task.snap \in Snap /\ task.snap \in 0..latest /\ task.offset \in Offset
    BY DEF StreamInv, StreamTypeOK, Call, Snap, SendChunk
  <1>2. /\ Receive(c)
        /\ task' = IF ended THEN [on |-> FALSE, snap |-> 0, offset |-> 0]
                   ELSE [task EXCEPT !.offset = NextOffset(c)]
        /\ callback' = IF ~ended THEN None
                       ELSE [type |-> IF higher THEN "HigherVote" ELSE "Ok", snap |-> task.snap]
        /\ UNCHANGED <<latest, matching, closed, late, higher, spent>>
    BY DEF SendChunk
  <1>3. ~ended => NextOffset(c) \in Offset
    BY <1>1, StreamAssumption DEF NextOffset, Offset
  <1>4. StreamTypeOK'
    <2>1. /\ streaming' \in [id : 0..MaxSnaps, written : SUBSET Offset]
          /\ installed' \in [last : 0..MaxSnaps, whole : BOOLEAN]
      BY <1>1, <1>2, ReceiveType DEF StreamInv
    <2>2. /\ task' \in [on : BOOLEAN, snap : 0..latest', offset : Offset]
          /\ task'.on => task'.snap \in Snap
      <3>1. CASE ended
        BY <1>2, <3>1, StreamAssumption DEF StreamInv, StreamTypeOK, Offset, Snap
      <3>2. CASE ~ended
        BY <1>1, <1>2, <1>3, <3>2 DEF StreamInv, StreamTypeOK
      <3>. QED
        BY <3>1, <3>2
    <2>3. callback' \in [type : {"none", "Ok", "HigherVote"}, snap : 0..latest']
      BY <1>1, <1>2, StreamAssumption DEF None, StreamInv, StreamTypeOK, Snap
    <2>. QED
      BY <1>2, <2>1, <2>2, <2>3 DEF StreamInv, StreamTypeOK
  <1>5. SentIsWritten'
    <2>. SUFFICES ASSUME task'.on, streaming'.id = task'.snap, task'.snap \notin spent.stale,
                         NEW o \in Offset, o < task'.offset
                  PROVE  o \in streaming'.written
      BY <1>2 DEF SentIsWritten
    <2>1. ~ended /\ task'.snap = task.snap /\ task'.offset = NextOffset(c)
      BY <1>2 DEF StreamInv, StreamTypeOK
    <2>2. ~Mismatch(c) /\ o <= task.offset
      BY <1>1, <2>1, StreamAssumption DEF NextOffset, Offset
    <2>. QED
      BY <1>1, <1>2, <2>1, <2>2, OwnCall
  <1>6. AckedIsInstalled'
    <2>1. installed'.whole \/ installed'.last \in spent.stale
      BY <1>1, <1>2, OwnCall
    <2>2. installed.last <= installed'.last /\ installed.last \in Nat /\ installed'.last \in Nat
      BY <1>1, <1>2, ReceiveType, StreamAssumption DEF StreamInv, StreamTypeOK
    <2>3. callback'.type = "Ok" => callback'.snap <= installed'.last
      <3>. SUFFICES ASSUME callback'.type = "Ok" PROVE task.snap <= installed'.last /\ callback'.snap = task.snap
        OBVIOUS
      <3>1. ended /\ ~higher /\ callback'.snap = task.snap
        BY <1>2 DEF None
      <3>2. installed' = IF c.id > installed.last
                         THEN [last |-> c.id, whole |-> Received(c).written = Offset] ELSE installed
        BY <1>2, <3>1 DEF Receive
      <3>. QED
        BY <1>1, <2>2, <3>1, <3>2, StreamAssumption DEF Snap
    <2>4. matching' <= installed'.last
      BY <1>2, <2>2, StreamAssumption DEF StreamInv, StreamTypeOK, AckedIsInstalled, Snap
    <2>. QED
      BY <1>2, <2>1, <2>3, <2>4 DEF AckedIsInstalled
  <1>. QED
    BY <1>4, <1>5, <1>6 DEF StreamInv

\* A call whose answer is lost: the follower may be one chunk ahead of the loop.
LEMMA LoseAnswerKeeps ==
    ASSUME StreamInv, LoseAnswer PROVE StreamInv'
  <1>. DEFINE c == Call(task.snap, task.offset)
  <1>1. /\ c \in [id : Snap, offset : Offset, done : BOOLEAN]
        /\ task.on /\ Receive(c)
        /\ spent'.stale = spent.stale /\ spent' \in [late : 0..MaxLate, faults : 0..MaxFaults, stale : SUBSET Snap]
        /\ UNCHANGED <<latest, task, callback, matching, closed, late, higher>>
    BY StreamAssumption DEF StreamInv, StreamTypeOK, Call, Snap, LoseAnswer
  <1>2. /\ streaming' \in [id : 0..MaxSnaps, written : SUBSET Offset]
        /\ installed' \in [last : 0..MaxSnaps, whole : BOOLEAN]
        /\ installed.last <= installed'.last
    BY <1>1, ReceiveType DEF StreamInv
  <1>3. StreamTypeOK'
    BY <1>1, <1>2 DEF StreamInv, StreamTypeOK
  <1>4. SentIsWritten'
    BY <1>1, OwnCall DEF SentIsWritten
  <1>5. installed'.whole \/ installed'.last \in spent.stale
    BY <1>1, OwnCall
  <1>6. AckedIsInstalled'
    BY <1>1, <1>2, <1>5, StreamAssumption DEF StreamInv, StreamTypeOK, AckedIsInstalled, Snap
  <1>. QED
    BY <1>3, <1>4, <1>6 DEF StreamInv

\* A call that arrives late marks its snapshot, of which nothing is claimed from
\* then on but that the leader records no more than what is installed.
LEMMA ArriveLateKeeps ==
    ASSUME StreamInv, NEW c \in late, ArriveLate(c) PROVE StreamInv'
  <1>1. /\ c \in [id : Snap, offset : Offset, done : BOOLEAN]
        /\ Receive(c) /\ late' \subseteq late
        /\ spent'.stale = spent.stale \cup {c.id}
        /\ spent' \in [late : 0..MaxLate, faults : 0..MaxFaults, stale : SUBSET Snap]
        /\ UNCHANGED <<latest, task, callback, matching, closed, higher>>
    BY DEF StreamInv, StreamTypeOK, ArriveLate
  <1>2. /\ streaming' \in [id : 0..MaxSnaps, written : SUBSET Offset]
        /\ installed' \in [last : 0..MaxSnaps, whole : BOOLEAN]
        /\ installed.last <= installed'.last
        /\ installed' # installed => installed'.last = c.id
    BY <1>1, ReceiveType DEF StreamInv
  <1>3. StreamTypeOK'
    BY <1>1, <1>2 DEF StreamInv, StreamTypeOK
  <1>4. SentIsWritten'
    <2>. SUFFICES ASSUME task.on, streaming'.id = task.snap, task.snap \notin spent'.stale
                  PROVE  UNCHANGED streaming
      BY <1>1 DEF StreamInv, SentIsWritten
    <2>1. c.id # task.snap /\ task.snap \in Snap
      BY <1>1 DEF StreamInv, StreamTypeOK
    <2>. QED
      BY <1>1, <2>1, StreamAssumption DEF Receive, Received, Snap
  <1>5. AckedIsInstalled'
    BY <1>1, <1>2, StreamAssumption DEF StreamInv, StreamTypeOK, AckedIsInstalled, Snap
  <1>. QED
    BY <1>3, <1>4, <1>5 DEF StreamInv

\* Every step of the leader, the network and the follower keeps the invariant.
LEMMA StreamInvNext ==
    ASSUME StreamInv, [StreamNext]_streamVars PROVE StreamInv'
  <1>1. CASE BuildSnapshot
    <2>1. latest' \in Snap /\ latest <= latest'
      BY <1>1, StreamAssumption DEF BuildSnapshot, StreamInv, StreamTypeOK, Snap
    <2>2. StreamTypeOK'
      BY <1>1, <2>1, LatestGrows DEF BuildSnapshot, StreamInv, StreamTypeOK
    <2>. QED
      BY <1>1, <2>2 DEF BuildSnapshot, StreamInv, SentIsWritten, AckedIsInstalled
  <1>2. CASE StreamSnapshot
    <2>1. task' = [on |-> TRUE, snap |-> latest, offset |-> 0]
          /\ UNCHANGED <<latest, callback, matching, closed, late, streaming, higher, installed, spent>>
      BY <1>2 DEF StreamSnapshot
    <2>2. StreamTypeOK'
      BY <2>1, StreamAssumption DEF StreamInv, StreamTypeOK, Snap, Offset
    <2>3. SentIsWritten'
      BY <2>1, StreamAssumption DEF SentIsWritten, Offset
    <2>. QED
      BY <2>1, <2>2, <2>3 DEF StreamInv, AckedIsInstalled
  <1>3. CASE SendChunk
    BY <1>3, SendChunkKeeps
  <1>4. CASE LoseAnswer
    BY <1>4, LoseAnswerKeeps
  <1>5. CASE DelayCall
    <2>1. Call(task.snap, task.offset) \in [id : Snap, offset : Offset, done : BOOLEAN]
      BY <1>5 DEF DelayCall, StreamInv, StreamTypeOK, Call
    <2>2. spent'.stale = spent.stale /\ spent' \in [late : 0..MaxLate, faults : 0..MaxFaults, stale : SUBSET Snap]
      BY <1>5, StreamAssumption DEF DelayCall, StreamInv, StreamTypeOK
    <2>. QED
      BY <1>5, <2>1, <2>2 DEF DelayCall, StreamInv, StreamTypeOK, SentIsWritten, AckedIsInstalled
  <1>6. ASSUME NEW c \in late, ArriveLate(c) PROVE StreamInv'
    BY <1>6, ArriveLateKeeps
  <1>7. CASE CancelStream
    <2>1. spent'.stale = spent.stale /\ spent' \in [late : 0..MaxLate, faults : 0..MaxFaults, stale : SUBSET Snap]
      BY <1>7, StreamAssumption DEF CancelStream, StreamInv, StreamTypeOK
    <2>2. StreamTypeOK'
      BY <1>7, <2>1, StreamAssumption DEF CancelStream, StreamInv, StreamTypeOK, Offset, Snap
    <2>. QED
      BY <1>7, <2>1, <2>2 DEF CancelStream, StreamInv, SentIsWritten, AckedIsInstalled
  <1>8. CASE RestartFollower
    <2>1. spent'.stale = spent.stale /\ spent' \in [late : 0..MaxLate, faults : 0..MaxFaults, stale : SUBSET Snap]
      BY <1>8, StreamAssumption DEF RestartFollower, StreamInv, StreamTypeOK
    <2>2. StreamTypeOK'
      BY <1>8, <2>1, StreamAssumption DEF RestartFollower, StreamInv, StreamTypeOK
    <2>3. SentIsWritten'
      BY <1>8, <2>1, StreamAssumption DEF RestartFollower, StreamInv, StreamTypeOK, SentIsWritten, Snap
    <2>. QED
      BY <1>8, <2>1, <2>2, <2>3 DEF RestartFollower, StreamInv, AckedIsInstalled
  <1>9. CASE RaiseVote
    <2>1. spent'.stale = spent.stale /\ spent' \in [late : 0..MaxLate, faults : 0..MaxFaults, stale : SUBSET Snap]
      BY <1>9, StreamAssumption DEF RaiseVote, StreamInv, StreamTypeOK
    <2>. QED
      BY <1>9, <2>1 DEF RaiseVote, StreamInv, StreamTypeOK, SentIsWritten, AckedIsInstalled
  <1>10. CASE HandleSnapshotCallback
    <2>1. /\ matching' = Acked /\ callback' = None /\ closed' = (closed \/ callback.type = "HigherVote")
          /\ UNCHANGED <<latest, task, late, streaming, higher, installed, spent>>
      BY <1>10 DEF HandleSnapshotCallback
    <2>2. StreamTypeOK'
      BY <2>1, StreamAssumption DEF StreamInv, StreamTypeOK, Acked, None, Snap
    <2>. QED
      BY <2>1, <2>2 DEF StreamInv, SentIsWritten, AckedIsInstalled, Acked, None
  <1>11. CASE UNCHANGED streamVars
    BY <1>11 DEF streamVars, StreamInv, StreamTypeOK, SentIsWritten, AckedIsInstalled
  <1>. QED
    BY <1>1, <1>2, <1>3, <1>4, <1>5, <1>6, <1>7, <1>8, <1>9, <1>10, <1>11 DEF StreamNext

\* Through lost answers, cancelled streams, restarts of the follower and chunks
\* of other snapshots in between, a snapshot that Chunked::receive_snapshot()
\* hands over for installation has every chunk unless one of its calls arrived
\* after it had timed out, and what the leader records for the follower is
\* installed there.
THEOREM SnapshotsArrive ==
    StreamSpec => []AckedIsInstalled
  <1>1. StreamInit => StreamInv
    BY StreamInvInit
  <1>2. StreamInv /\ [StreamNext]_streamVars => StreamInv'
    BY StreamInvNext
  <1>3. StreamInv => AckedIsInstalled
    BY DEF StreamInv
  <1>. QED
    BY <1>1, <1>2, <1>3, PTL DEF StreamSpec
==============================================================================
