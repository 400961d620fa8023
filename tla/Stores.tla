------------------------------- MODULE Stores -------------------------------
(***************************************************************************)
(* The log stores and state machine stores of the repository: memstore of  *)
(* the tests and the stores of the examples.  RaftCore, the state machine  *)
(* worker and the task that builds a snapshot call one store concurrently; *)
(* a RocksDB store may lose, in a crash, the writes after its last         *)
(* flush_wal.  An operation of a store is a sequence of atomic steps, each *)
(* the sequence of its effects between two points at which another task    *)
(* may run.                                                                *)
(***************************************************************************)
EXTENDS Naturals, Sequences, FiniteSets, SequencesExt

CONSTANTS
    Stores,       \* the stores to explore, a subset of the domain of Kind
    MaxLog,       \* bound on log indexes
    MaxTerm,      \* bound on terms
    MaxBuilds,    \* how often a snapshot is built
    MaxInstalls,  \* how often a snapshot is received
    MaxCrashes    \* how often the process crashes

VARIABLES
    store,    \* the store in use
    db,       \* what the store holds
    durable,  \* the contents a crash may leave behind (RocksDB)
    sm,       \* the state machine in memory: last_applied and the data it has
    worker,   \* sm::Worker: queued commands and the steps left of the current one
    builder,  \* the spawned build_snapshot(): steps left and the view it took
    core,     \* what RaftCore knows
    io,       \* the steps left of the log store call RaftCore is in
    spent     \* budgets used

svars == <<store, db, durable, sm, worker, builder, core, io, spent>>

Index == 1..MaxLog
Nothing == [last |-> 0, data |-> 0]
-----------------------------------------------------------------------------
(* One effect [op, ...] of a log store call. *)
Put(i, t) == [op |-> "put", at |-> i, term |-> t]
DeleteFrom(i) == [op |-> "delete_from", at |-> i, term |-> 0]
DeleteUpto(i) == [op |-> "delete_upto", at |-> i, term |-> 0]
PutPurged(i) == [op |-> "purged", at |-> i, term |-> 0]
PutVote(t) == [op |-> "vote", at |-> 0, term |-> t]
PutCommitted(i) == [op |-> "committed", at |-> i, term |-> 0]
Sync == [op |-> "sync", at |-> 0, term |-> 0]

Written(d, e) ==
    CASE e.op = "put" -> [d EXCEPT !.log[e.at] = e.term]
      [] e.op = "delete_from" -> [d EXCEPT !.log = [i \in Index |-> IF i >= e.at THEN 0 ELSE @[i]]]
      [] e.op = "delete_upto" -> [d EXCEPT !.log = [i \in Index |-> IF i <= e.at THEN 0 ELSE @[i]]]
      [] e.op = "purged" -> [d EXCEPT !.purged = e.at]
      [] e.op = "vote" -> [d EXCEPT !.vote = e.term]
      [] e.op = "committed" -> [d EXCEPT !.committed = e.at]
      [] OTHER -> d

(* stores/memstore: every call takes the lock of what it writes. *)
MemSaveVote(t) == << <<PutVote(t)>> >>
MemSaveCommitted(i) == << <<PutCommitted(i)>> >>
MemAppend(es) == <<es>>
MemTruncate(i) == << <<DeleteFrom(i)>> >>
MemPurge(i) == << <<PutPurged(i)>>, <<DeleteUpto(i)>> >>

(* examples/memstore: one lock for the whole LogStore. *)
LogStoreSaveVote(t) == << <<PutVote(t)>> >>
LogStoreSaveCommitted(i) == << <<PutCommitted(i)>> >>
LogStoreAppend(es) == <<es>>
LogStoreTruncate(i) == << <<DeleteFrom(i)>> >>
LogStorePurge(i) == << <<PutPurged(i), DeleteUpto(i)>> >>

(* examples/raft-kv-memstore-singlethreaded: no call awaits anything. *)
SingleSaveVote(t) == << <<PutVote(t)>> >>
SingleSaveCommitted(i) == << <<PutCommitted(i)>> >>
SingleAppend(es) == <<es>>
SingleTruncate(i) == << <<DeleteFrom(i)>> >>
SinglePurge(i) == << <<PutPurged(i), DeleteUpto(i)>> >>

(* examples/rocksstore: each put is a record of RocksDB's write-ahead log, *)
(* flush_wal(true) makes every record before it durable.  save_committed   *)
(* is not implemented.                                                     *)
RocksSaveVote(t) == << <<PutVote(t)>>, <<Sync>> >>

RocksAppend(es) == Append([k \in 1..Len(es) |-> <<es[k]>>], <<Sync>>)

RocksTruncate(i) == << <<DeleteFrom(i)>>, <<Sync>> >>

RocksPurge(i) == << <<PutPurged(i)>>, <<DeleteUpto(i)>> >>
-----------------------------------------------------------------------------
(* Effects of the calls on a state machine store: "meta" and "data" read   *)
(* last_applied and the data, "id" and "kv" apply the log id and the       *)
(* request of the next entry, "put" replaces the current snapshot, "sm"    *)
(* replaces the state machine, "sync" flushes; "sm+"/"sm-" and             *)
(* "cur+"/"cur-" take and release the locks of the state machine and of    *)
(* the current snapshot where they are held across an await.               *)
Entry == <<"id", "kv">>
Entries(n) == FlattenSeq([k \in 1..n |-> Entry])

(* apply() of n entries: the state machine is locked once and the loop     *)
(* awaits nothing; raft-kv-rocksdb locks the data for one entry at a time. *)
MemstoreApply(n) == <<Entries(n)>>
KvMemApply(n) == <<Entries(n)>>
GrpcApply(n) == <<Entries(n)>>
NetworkV2Apply(n) == <<Entries(n)>>
OpendalApply(n) == <<Entries(n)>>
SingleApply(n) == <<Entries(n)>>
RocksApply(n) == <<Entries(n)>>
KvRocksApply(n) == [k \in 1..n |-> Entry]

MemstoreBuild == << <<"meta", "data">>, <<"put">> >>
MemstoreInstall == << <<"sm">>, <<"put">> >>
GrpcBuild == << <<"meta", "data">>, <<"put">> >>
GrpcInstall == << <<"sm">>, <<"put">> >>
NetworkV2Build == << <<"meta", "data">>, <<"put">> >>
NetworkV2Install == << <<"sm">>, <<"put">> >>
OpendalBuild == << <<"meta", "data">>, <<"put">> >>
OpendalInstall == << <<"sm">>, <<"put">> >>

\* Variant of KvMemBuild that releases the state machine before it locks the snapshot.
KvMemBuildUnlocked == << <<"sm+", "meta", "data", "sm-">>, <<"cur+", "put", "cur-">> >>

KvMemBuild == << <<"sm+", "meta", "data">>, <<"cur+", "sm-">>, <<"put", "cur-">> >>
KvMemInstall == << <<"sm+", "sm">>, <<"cur+", "sm-">>, <<"put", "cur-">> >>

SingleBuild == << <<"meta", "data", "put">> >>
SingleInstall == << <<"sm", "put">> >>
RocksBuild == << <<"put">> >>
RocksInstall == << <<"sm">>, <<"put", "sync">> >>
KvRocksBuild == << <<"data">>, <<"put", "sync">> >>
KvRocksInstall == << <<"sm">>, <<"put", "sync">> >>

(* get_snapshot_builder(): what the builder copies before it is spawned.   *)
(* RocksStateMachine clones the state machine; the clone of                *)
(* raft-kv-rocksdb shares the data.                                        *)
RocksBuilder == <<"meta", "data">>
KvRocksBuilder == <<"meta">>

Kind ==
    [memstore |-> [log |-> "mem", spawn |-> <<>>, build |-> MemstoreBuild, install |-> MemstoreInstall],
     kvmem    |-> [log |-> "logstore", spawn |-> <<>>, build |-> KvMemBuild, install |-> KvMemInstall],
     grpc     |-> [log |-> "logstore", spawn |-> <<>>, build |-> GrpcBuild, install |-> GrpcInstall],
     v2       |-> [log |-> "logstore", spawn |-> <<>>, build |-> NetworkV2Build, install |-> NetworkV2Install],
     opendal  |-> [log |-> "logstore", spawn |-> <<>>, build |-> OpendalBuild, install |-> OpendalInstall],
     single   |-> [log |-> "single", spawn |-> <<>>, build |-> SingleBuild, install |-> SingleInstall],
     rocks    |-> [log |-> "rocks", spawn |-> RocksBuilder, build |-> RocksBuild, install |-> RocksInstall],
     kvrocks  |-> [log |-> "rocks", spawn |-> KvRocksBuilder, build |-> KvRocksBuild, install |-> KvRocksInstall]]

ApplySteps(n) ==
    [memstore |-> MemstoreApply(n), kvmem |-> KvMemApply(n), grpc |-> GrpcApply(n), v2 |-> NetworkV2Apply(n),
     opendal |-> OpendalApply(n), single |-> SingleApply(n), rocks |-> RocksApply(n),
     kvrocks |-> KvRocksApply(n)][store]

Persistent == Kind[store].log = "rocks"

SaveVoteSteps(t) ==
    [mem |-> MemSaveVote(t), logstore |-> LogStoreSaveVote(t), single |-> SingleSaveVote(t),
     rocks |-> RocksSaveVote(t)][Kind[store].log]
SaveCommittedSteps(i) ==
    [mem |-> MemSaveCommitted(i), logstore |-> LogStoreSaveCommitted(i),
     single |-> SingleSaveCommitted(i), rocks |-> <<>>][Kind[store].log]
AppendSteps(es) ==
    [mem |-> MemAppend(es), logstore |-> LogStoreAppend(es), single |-> SingleAppend(es),
     rocks |-> RocksAppend(es)][Kind[store].log]
TruncateSteps(i) ==
    [mem |-> MemTruncate(i), logstore |-> LogStoreTruncate(i), single |-> SingleTruncate(i),
     rocks |-> RocksTruncate(i)][Kind[store].log]
PurgeSteps(i) ==
    [mem |-> MemPurge(i), logstore |-> LogStorePurge(i), single |-> SinglePurge(i),
     rocks |-> RocksPurge(i)][Kind[store].log]
-----------------------------------------------------------------------------
(* try_get_log_entries(): the logs that are there, of the range asked for; *)
(* RocksDB is scanned from the first on, up to one outside the range.      *)
MemEntries(d, first, last) == {i \in first..last : d.log[i] # 0}
LogStoreEntries(d, first, last) == {i \in first..last : d.log[i] # 0}
SingleEntries(d, first, last) == {i \in first..last : d.log[i] # 0}
RocksEntries(d, first, last) == {i \in Index : i >= first /\ d.log[i] # 0} \cap 0..last

EntriesOf(d, first, last) ==
    [mem |-> MemEntries(d, first, last), logstore |-> LogStoreEntries(d, first, last),
     single |-> SingleEntries(d, first, last), rocks |-> RocksEntries(d, first, last)][Kind[store].log]

Present(log) == {i \in Index : log[i] # 0}
LastOf(log, purged) == CHOOSE i \in Present(log) \cup {purged} : \A j \in Present(log) : j <= i
Below(log, i) == [j \in Index |-> IF j >= i THEN 0 ELSE log[j]]
Above(log, i) == [j \in Index |-> IF j <= i THEN 0 ELSE log[j]]

(* get_log_state(): the last log, or the last purged one if there is none. *)
LastLog(d) == LastOf(d.log, IF Present(d.log) = {} THEN d.purged ELSE 0)

Init ==
    /\ store \in Stores
    /\ db = [vote |-> 0, log |-> [i \in Index |-> 0], purged |-> 0, committed |-> 0, snap |-> Nothing]
    /\ durable = IF Persistent THEN {db} ELSE {}
    /\ sm = [last |-> 0, data |-> 0, lock |-> "free", cur |-> "free"]
    /\ worker = [todo |-> <<>>, steps |-> <<>>, view |-> Nothing, failed |-> FALSE]
    /\ builder = [on |-> FALSE, steps |-> <<>>, view |-> Nothing]
    /\ core = [vote |-> 0, log |-> db.log, purged |-> 0, committed |-> 0, snap |-> 0, io_snap |-> 0,
               purge_upto |-> 0, building |-> FALSE, notes |-> <<>>]
    /\ io = <<>>
    /\ spent = [builds |-> 0, installs |-> 0, crashes |-> 0, overtaken |-> FALSE]

Up == ~worker.failed

(* Commands are run in order, and those behind a PurgeLog wait with it. *)
Idle == Up /\ io = <<>> /\ core.purge_upto = core.purged

SaveVote ==
    /\ Idle /\ core.vote < MaxTerm
    /\ core' = [core EXCEPT !.vote = @ + 1]
    /\ io' = SaveVoteSteps(core.vote + 1)
    /\ UNCHANGED <<store, db, durable, sm, worker, builder, spent>>

AppendLogs(n) ==
    LET last == LastOf(core.log, core.purged)
    IN  /\ Idle /\ core.vote > 0 /\ last + n <= MaxLog
        /\ core' = [core EXCEPT !.log = [i \in Index |-> IF i \in (last + 1)..(last + n) THEN core.vote ELSE @[i]]]
        /\ io' = AppendSteps([k \in 1..n |-> Put(last + k, core.vote)])
        /\ UNCHANGED <<store, db, durable, sm, worker, builder, spent>>

Truncate(i) ==
    /\ Idle /\ i > core.committed /\ core.log[i] # 0 /\ core.log[i] < core.vote
    /\ core' = [core EXCEPT !.log = Below(@, i)]
    /\ io' = TruncateSteps(i)
    /\ UNCHANGED <<store, db, durable, sm, worker, builder, spent>>

(* Command::SaveCommitted, then Command::Apply. *)
Commit(i) ==
    /\ Idle /\ i > core.committed /\ core.log[i] # 0
    /\ core' = [core EXCEPT !.committed = i]
    /\ io' = SaveCommittedSteps(i)
    /\ worker' = [worker EXCEPT !.todo = Append(@, [type |-> "Apply", first |-> core.committed + 1, last |-> i])]
    /\ UNCHANGED <<store, db, durable, sm, builder, spent>>

MayBuild == ~core.building

TriggerSnapshot ==
    /\ Up /\ MayBuild /\ core.committed > 0 /\ spent.builds < MaxBuilds
    /\ core' = [core EXCEPT !.building = TRUE]
    /\ worker' = [worker EXCEPT !.todo = Append(@, [type |-> "BuildSnapshot", first |-> 0, last |-> 0])]
    /\ spent' = [spent EXCEPT !.builds = @ + 1]
    /\ UNCHANGED <<store, db, durable, sm, builder, io>>

(* A snapshot of the current leader that ends at its log i: a log of       *)
(* another leader at i takes the uncommitted logs with it.                 *)
InstallSnapshot(i) ==
    LET conflict == core.log[i] \notin {0, core.vote}
    IN  /\ Idle /\ core.vote > 0 /\ i > core.committed /\ spent.installs < MaxInstalls
        /\ core' = [core EXCEPT !.committed = i, !.snap = i, !.purge_upto = i,
                                !.log = IF conflict THEN Below(@, core.committed + 1) ELSE @]
        /\ io' = IF conflict THEN TruncateSteps(core.committed + 1) ELSE <<>>
        /\ worker' = [worker EXCEPT !.todo = Append(@, [type |-> "InstallFullSnapshot", first |-> 0, last |-> i])]
        /\ spent' = [spent EXCEPT !.installs = @ + 1]
        /\ UNCHANGED <<store, db, durable, sm, builder>>

PurgeReady == core.io_snap >= core.purge_upto

Purge ==
    /\ Up /\ io = <<>> /\ core.purge_upto > core.purged
    /\ PurgeReady
    /\ core' = [core EXCEPT !.purged = core.purge_upto, !.log = Above(@, core.purge_upto)]
    /\ io' = PurgeSteps(core.purge_upto)
    /\ UNCHANGED <<store, db, durable, sm, worker, builder, spent>>

(* A response of the state machine worker or of a build; keep is           *)
(* max_in_snapshot_log_to_keep.                                            *)
HandleNote(keep) ==
    /\ Up /\ io = <<>> /\ core.notes # <<>>
    /\ LET n == Head(core.notes)
           c == [core EXCEPT !.notes = Tail(@), !.io_snap = n.last]
           upto == IF n.last > keep THEN n.last - keep ELSE 0
       IN  core' = IF n.type = "InstallSnapshot" THEN c
                   ELSE IF n.last <= core.snap THEN [c EXCEPT !.building = FALSE]
                   ELSE [c EXCEPT !.building = FALSE, !.snap = n.last,
                                  !.purge_upto = IF upto > @ THEN upto ELSE @]
    /\ UNCHANGED <<store, db, durable, sm, worker, builder, io, spent>>

(* The next step of the log store call. *)
LogStoreStep ==
    LET d == FoldLeft(Written, db, Head(io))
    IN  /\ Up /\ io # <<>>
        /\ db' = d
        /\ durable' = IF ~Persistent THEN {} ELSE IF Contains(Head(io), Sync) THEN {d} ELSE durable \cup {d}
        /\ io' = Tail(io)
        /\ UNCHANGED <<store, sm, worker, builder, core, spent>>
-----------------------------------------------------------------------------
(* One effect of a build or an installation; s collects the store, the     *)
(* state machine and the task's own view.                                  *)
Does(who, s, e) ==
    CASE e = "meta" -> [s EXCEPT !.view.last = s.sm.last]
      [] e = "data" -> [s EXCEPT !.view.data = s.sm.data]
      [] e = "id" -> [s EXCEPT !.sm.last = @ + 1]
      [] e = "kv" -> [s EXCEPT !.sm.data = s.sm.last]
      [] e = "put" -> [s EXCEPT !.db.snap = s.view]
      [] e = "sm" -> [s EXCEPT !.sm.last = s.view.last, !.sm.data = s.view.data]
      [] e = "sm+" -> [s EXCEPT !.sm.lock = who]
      [] e = "sm-" -> [s EXCEPT !.sm.lock = "free"]
      [] e = "cur+" -> [s EXCEPT !.sm.cur = who]
      [] e = "cur-" -> [s EXCEPT !.sm.cur = "free"]
      [] OTHER -> s

Doing(who, view, step) ==
    FoldLeft(LAMBDA s, e : Does(who, s, e), [db |-> db, sm |-> sm, view |-> view], step)

Allowed(who, step) ==
    /\ Range(step) \cap {"meta", "data", "id", "sm", "sm+"} # {} => sm.lock \in {"free", who}
    /\ Range(step) \cap {"put", "cur+"} # {} => sm.cur \in {"free", who}

Saved(d, step) ==
    /\ db' = d
    /\ durable' = IF ~Persistent THEN {}
                  ELSE IF Contains(step, "sync") THEN {d} ELSE durable \cup {d}

Note(type, last) == core' = [core EXCEPT !.notes = Append(@, [type |-> type, last |-> last])]

(* sm::Worker::apply(): the entries are read back from the log store. *)
WorkerApply ==
    LET c == Head(worker.todo)
    IN  /\ Up /\ worker.steps = <<>> /\ worker.todo # <<>> /\ c.type = "Apply"
        /\ worker' = IF EntriesOf(db, c.first, c.last) = c.first..c.last
                     THEN [worker EXCEPT !.todo = Tail(@), !.view = Nothing,
                                         !.steps = ApplySteps(c.last + 1 - c.first)]
                     ELSE [worker EXCEPT !.failed = TRUE]
        /\ UNCHANGED <<store, db, durable, sm, builder, core, io, spent>>

(* sm::Worker::build_snapshot(): get_snapshot_builder(), then spawn. *)
WorkerBuild ==
    /\ Up /\ worker.steps = <<>> /\ worker.todo # <<>> /\ Head(worker.todo).type = "BuildSnapshot"
    /\ builder' = [on |-> TRUE, steps |-> Kind[store].build,
                   view |-> Doing("builder", Nothing, Kind[store].spawn).view]
    /\ worker' = [worker EXCEPT !.todo = Tail(@)]
    /\ UNCHANGED <<store, db, durable, sm, core, io, spent>>

WorkerInstall ==
    /\ Up /\ worker.steps = <<>> /\ worker.todo # <<>> /\ Head(worker.todo).type = "InstallFullSnapshot"
    /\ LET i == Head(worker.todo).last
       IN  worker' = [worker EXCEPT !.todo = Tail(@), !.steps = Kind[store].install,
                                    !.view = [last |-> i, data |-> i]]
    /\ UNCHANGED <<store, db, durable, sm, builder, core, io, spent>>

(* The next step of apply() or install_snapshot(); what the response of an *)
(* apply tells RaftCore is in NodeIO.                                      *)
WorkerStep ==
    /\ Up /\ worker.steps # <<>> /\ Allowed("worker", Head(worker.steps))
    /\ LET s == Doing("worker", worker.view, Head(worker.steps))
       IN  Saved(s.db, Head(worker.steps)) /\ sm' = s.sm
    /\ worker' = [worker EXCEPT !.steps = Tail(@)]
    /\ IF Len(worker.steps) = 1 /\ worker.view # Nothing
       THEN Note("InstallSnapshot", worker.view.last) ELSE UNCHANGED core
    /\ UNCHANGED <<store, builder, io, spent>>

BuilderStep ==
    /\ Up /\ builder.on /\ Allowed("builder", Head(builder.steps))
    /\ LET step == Head(builder.steps)
           s == Doing("builder", builder.view, step)
       IN  /\ Saved(s.db, step) /\ sm' = s.sm
           /\ builder' = [on |-> Len(builder.steps) > 1, steps |-> Tail(builder.steps),
                          view |-> IF Len(builder.steps) > 1 THEN s.view ELSE Nothing]
           /\ spent' = [spent EXCEPT !.overtaken =
                            @ \/ (Contains(step, "put") /\ s.view.last < db.snap.last)]
           /\ IF Len(builder.steps) = 1 THEN Note("BuildSnapshot", s.view.last) ELSE UNCHANGED core
    /\ UNCHANGED <<store, worker, io>>

(* new() and new_storage(): the state machine in memory is the one of the  *)
(* snapshot that was saved.                                                *)
RocksNew(d) == [last |-> d.snap.last, data |-> d.snap.data, lock |-> "free", cur |-> "free"]
KvRocksNew(d) == [last |-> d.snap.last, data |-> d.snap.data, lock |-> "free", cur |-> "free"]

(* A crash, then StorageHelper::get_initial_state(): logs that end before  *)
(* the last applied one are purged.                                        *)
Crash ==
    /\ Up /\ Persistent /\ spent.crashes < MaxCrashes
    /\ \E d \in durable :
        LET opened == IF store = "rocks" THEN RocksNew(d) ELSE KvRocksNew(d)
            applied == opened.last
            dirty == LastLog(d) < applied
            purged == IF dirty THEN applied ELSE d.purged
        IN  /\ db' = d /\ durable' = {d}
            /\ sm' = opened
            /\ io' = IF dirty THEN PurgeSteps(applied) ELSE <<>>
            /\ core' = [vote |-> d.vote, log |-> Above(d.log, purged), purged |-> purged,
                        committed |-> applied, snap |-> applied, io_snap |-> applied,
                        purge_upto |-> purged, building |-> FALSE, notes |-> <<>>]
    /\ worker' = [todo |-> <<>>, steps |-> <<>>, view |-> Nothing, failed |-> FALSE]
    /\ builder' = [on |-> FALSE, steps |-> <<>>, view |-> Nothing]
    /\ spent' = [spent EXCEPT !.crashes = @ + 1]
    /\ UNCHANGED store

Next ==
    \/ SaveVote
    \/ \E n \in 1..2 : AppendLogs(n)
    \/ \E i \in Index : Truncate(i)
    \/ \E i \in Index : Commit(i)
    \/ TriggerSnapshot
    \/ \E i \in Index : InstallSnapshot(i)
    \/ Purge
    \/ \E keep \in 0..1 : HandleNote(keep)
    \/ LogStoreStep
    \/ WorkerApply
    \/ WorkerBuild
    \/ WorkerInstall
    \/ WorkerStep
    \/ BuilderStep
    \/ Crash

Spec == Init /\ [][Next]_svars
-----------------------------------------------------------------------------
TypeOK ==
    /\ store \in DOMAIN Kind
    /\ db.vote \in 0..MaxTerm /\ db.purged \in 0..MaxLog
    /\ db.committed \in 0..core.committed
    /\ \A s \in {db.snap, builder.view, worker.view} : s.last \in 0..MaxLog /\ s.data \in 0..MaxLog
    /\ sm.lock \in {"free", "worker", "builder"} /\ sm.cur \in {"free", "worker", "builder"}
    /\ builder.on => core.building
    /\ Up /\ worker.todo = <<>> /\ worker.steps = <<>> => sm.last = core.committed
    /\ core.snap <= core.committed /\ core.purge_upto >= core.purged

(* What save_vote(), append() and truncate() have reported is what a crash *)
(* leaves: above its own purge point every content RocksDB may be reopened *)
(* with has exactly the logs and the vote of the calls that returned.      *)
(* RocksLogStore::purge() is not a transaction: it saves the last purged   *)
(* id first, so that at no moment a crash leaves a store whose first log   *)
(* is above the one after the last purged, and the logs have no gap.       *)
ReportedIsDurable ==
    \A d \in durable :
        /\ Up /\ io = <<>> =>
               /\ d.vote = core.vote
               /\ \A i \in Index : i > d.purged /\ i > core.purged => d.log[i] = core.log[i]
        /\ \A i \in Index : d.log[i] # 0 /\ i > d.purged /\ i > d.snap.last =>
               \A j \in (d.purged + 1)..i : d.log[j] # 0 \/ j <= d.snap.last

(* The data of a snapshot is the state at the log id in its meta, also if  *)
(* entries are applied or a snapshot is installed while it is built.  The  *)
(* builder of raft-kv-rocksdb shares the data with the state machine: its  *)
(* snapshot may be ahead of its log id, never behind.                      *)
SnapshotIsACut ==
    \A d \in durable \cup {db} :
        IF store = "kvrocks" THEN d.snap.data >= d.snap.last ELSE d.snap.data = d.snap.last

(* A purged log is in the snapshot a replication or a restart would use,   *)
(* and in its data, at every moment and after every crash, and the entries *)
(* to apply can be read.  raft-kv-memstore and the single threaded store   *)
(* keep this also when a snapshot is received while one is built; in the   *)
(* other stores a build that was overtaken replaces the newer snapshot by  *)
(* its own.                                                                *)
PurgedIsInSnapshot ==
    /\ ReportedIsDurable /\ SnapshotIsACut
    /\ store \in {"kvmem", "single"} \/ ~spent.overtaken =>
           Up /\ \A d \in durable \cup {db} : d.purged <= d.snap.last

(* What RocksStateMachine and raft-kv-rocksdb rely on to restart: the      *)
(* snapshot that is saved reaches the logs that are purged.                *)
RestartsFromSnapshot == \A d \in durable : d.purged <= d.snap.last
=============================================================================
