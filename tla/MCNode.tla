------------------------------- MODULE MCNode --------------------------------
(***************************************************************************)
(* Instances for TLC of the specifications of one node's storage and       *)
(* snapshots: NodeIO, the list of log ids, the stores of the repository,   *)
(* the transport of a snapshot and the replication task.  Each behaviour   *)
(* is one of one of them, the others stay where they start.                *)
(***************************************************************************)
EXTENDS NodeIO, SnapshotStream

CONSTANTS
    ListIndex, ListBatch, MaxLeader,
    Stores, StoreLog, StoreTerm, MaxBuilds, MaxInstalls, StoreCrashes,
    MaxPayloadEntries, Limit, HintTTL, Networks, TaskLog, TaskFaults

VARIABLES
    part,                                                     \* the specification that moves
    keys, full, purged, search,                               \* of LogIdListCalls
    store, db, durable, sm, worker, builder, core, io, tried, \* of Stores
    lead, events, rclosed, notes, pc, next, sending,          \* of ReplicationTask
    backoff, hint, snapshot, snapTask, network, cut, rfaults

C == INSTANCE LogIdListCalls WITH MaxIndex <- ListIndex, MaxBatch <- ListBatch
S == INSTANCE Stores WITH MaxLog <- StoreLog, MaxTerm <- StoreTerm, MaxCrashes <- StoreCrashes,
         spent <- tried
T == INSTANCE ReplicationTask WITH closed <- rclosed, faults <- rfaults,
         MaxLog <- TaskLog, MaxFaults <- TaskFaults

listVars == <<keys, full, purged, search>>
storeVars == <<store, db, durable, sm, worker, builder, core, io, tried>>
taskVars ==
    <<lead, events, rclosed, notes, pc, next, sending, backoff, hint, snapshot, snapTask, network,
      cut, rfaults>>
nodeVars == <<part, vars, listVars, storeVars, streamVars, taskVars>>

ListNext == part = "list" /\ C!Next /\ UNCHANGED <<part, vars, storeVars, streamVars, taskVars>>
StoreNext == part = "store" /\ S!Next /\ UNCHANGED <<part, vars, listVars, streamVars, taskVars>>
TransferNext == part = "stream" /\ StreamNext /\ UNCHANGED <<part, vars, listVars, storeVars, taskVars>>
TaskNext == part = "task" /\ T!Next /\ UNCHANGED <<part, vars, listVars, storeVars, streamVars>>
IONext == part = "io" /\ Next /\ UNCHANGED <<part, listVars, storeVars, streamVars, taskVars>>

NodeInit ==
    /\ part \in {"io", "list", "store", "stream", "task"}
    /\ Init /\ C!Init /\ StreamInit
    /\ T!Init /\ (part = "task" \/ network = "v2")
    /\ S!Init /\ (part = "store" \/ store = "single")

NodeNext == IONext \/ ListNext \/ StoreNext \/ TransferNext \/ TaskNext

NodeSpec ==
    /\ NodeInit /\ [][NodeNext]_nodeVars
    /\ WF_listVars(C!LoadStep) /\ WF_listVars(C!FinishLoad)
    /\ WF_streamVars(part = "stream" /\ StreamSnapshot)
    /\ WF_streamVars(part = "stream" /\ SendChunk)
    /\ WF_streamVars(part = "stream" /\ HandleSnapshotCallback)
    /\ WF_taskVars(part = "task" /\ T!InitiateReplication)
    /\ WF_taskVars(part = "task" /\ T!HandleNotification)
    /\ WF_taskVars(part = "task" /\ T!Main)
    /\ WF_taskVars(part = "task" /\ T!SendSnapshot("Ok"))

\* Types: of NodeIO, with the order of its IO progress; of SnapshotStream; of Stores,
\* with one build at a time.
TypesOK ==
    /\ part = "io" => TypeOK
    /\ part = "stream" => StreamTypeOK
    /\ part = "store" => S!TypeOK

\* C!ListAgrees: the compressed list of log ids answers as the full one.
ListAgrees == part = "list" => C!ListAgrees

\* C!LoadRestoresKeys: the search at startup ends with the list the node had.
LoadRestoresKeys == part = "list" => C!LoadRestoresKeys

\* S!PurgedIsInSnapshot: a purged log is in the current snapshot, which has the
\* data of the log id it names, and what a log store call reported survives a
\* crash, which leaves no gap between the purged and the first log.
PurgedIsInSnapshot == part = "store" => S!PurgedIsInSnapshot

\* FollowerCatchesUp: a follower gets the leader's last snapshot.
SnapshotReachesFollower == part = "stream" => FollowerCatchesUp

\* T!OneDataInFlight: a replication task has at most one range of logs or snapshot
\* to send, the one RaftCore takes to be in flight.
OneDataInFlight == part = "task" => T!OneDataInFlight

\* T!LogsKept: logs that a replication task has still to send are not purged.
LogsKept == part = "task" => T!LogsKept

\* T!TaskServes: the target of a replication task gets every log, and the task
\* ends when RaftCore drops its channel.
TaskServes == part = "task" => T!TaskServes
==============================================================================
