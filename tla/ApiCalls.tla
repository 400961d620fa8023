------------------------------ MODULE ApiCalls ------------------------------
(***************************************************************************)
(* The handle Raft<C> and the RaftCore task behind it: calls that send a   *)
(* RaftMsg and wait for its answer, the channels on which RaftCore answers *)
(* client writes once their log entry is applied, Raft::shutdown() and the *)
(* ways a call learns that RaftCore is gone.                               *)
(*                                                                         *)
(* Of the Raft protocol only what decides the fate of a written entry is   *)
(* kept: this node leads or not, its log is extended, truncated by another *)
(* leader, committed, applied, or covered by a snapshot.  Entries are      *)
(* <<caller, step>>; Foreign stands for an entry some other leader wrote   *)
(* and for this node's own blank entries.                                  *)
(***************************************************************************)
EXTENDS Naturals, Sequences, FiniteSets, SequencesExt

CONSTANTS
    Caller,         \* tasks of the application, numbered from 1, one call each
    Ops,            \* the calls they may make, a subset of AllOps
    MaxForeign,     \* bound: the length up to which others' entries extend the log
    MaxDisruptions, \* bound: truncations of its log, elections of this node and transfers
    Cancels,        \* bound: calls whose future is dropped before it finishes
    Snapshots,      \* may a leader send this node a snapshot
    StorageFails    \* may the log store or the state machine fail

VARIABLES
    core,       \* the RaftCore task: "running", "exiting", "gone" (finished)
    fatal,      \* the Fatal it returned, "none" while it runs
    coreState,  \* RaftInner.core_state: "Running", "Joining", "Done"
    joinTx,     \* the watch sender of Joining: "none", "open", "sent", "dropped"
    signal,     \* tx_shutdown: "held", "sent"
    tick,       \* the tick loop: "running", "cancelled", "stopped"
    api,        \* the messages in tx_api, oldest first
    state,      \* ServerState: "Follower", "Candidate", "Leader", "Shutdown"; "Transferring"
                \* is a leader with transfer_to
    log, committed, applied,
    snapshot,   \* the last index of the snapshot another leader sent, 0 if none did
    applying,   \* the index up to which the state machine worker was told to apply
    cmds,       \* Engine.output: commands not yet run
    channels,   \* client_resp_channels, a set of [index, caller]
    call,       \* the call of each caller
    disruptions

nodeVars == <<state, log, committed, applied, snapshot, applying, cmds, channels, disruptions>>
coreVars == <<core, fatal>>
joinVars == <<coreState, joinTx>>
vars == <<core, fatal, coreState, joinTx, signal, tick, api, state, log, committed, applied,
          snapshot, applying, cmds, channels, call, disruptions>>

(* write: client_write; change: change_membership, which may write twice;  *)
(* state: with_raft_state; sm: with_state_machine; trigger: an external    *)
(* command of Trigger.                                                     *)
AllOps == {"write", "change", "state", "sm", "trigger", "shutdown"}
Fatals == {"Stopped", "StorageError", "Panicked"}
Foreign == <<0, 0>>

(* Room for every caller's entries behind the foreign ones.                *)
MaxLog == MaxForeign + 2 * Cardinality(Caller)

Idle == [op |-> "none", st |-> "idle", step |-> 0, res |-> "none", index |-> 0]

Finish(cl, c, res) == [cl EXCEPT ![c].st = "done", ![c].res = res]

TypeOK ==
    /\ core \in {"running", "exiting", "gone"}
    /\ fatal \in Fatals \cup {"none"}
    /\ (core = "running") <=> (fatal = "none")
    /\ coreState \in {"Running", "Joining", "Done"}
    /\ joinTx \in {"none", "open", "sent", "dropped"}
    /\ signal \in {"held", "sent"} /\ tick \in {"running", "cancelled", "stopped"}
    /\ api \in Seq([caller : Caller, op : AllOps])
    /\ state \in {"Follower", "Candidate", "Leader", "Transferring", "Shutdown"}
    /\ Len(log) <= MaxLog
    /\ snapshot <= applied /\ applied <= applying /\ applying <= committed /\ committed <= Len(log)
    /\ channels \subseteq [index : 1..MaxLog, caller : Caller]
    /\ \A c \in Caller : call[c].st \in {"idle", "sent", "joining", "watching", "ticking", "tickwait", "done", "dropped"}

(* Raft::new: the task is spawned, the handle holds its JoinHandle.        *)
Init ==
    /\ core = "running" /\ fatal = "none" /\ coreState = "Running" /\ joinTx = "none"
    /\ signal = "held" /\ tick = "running" /\ api = <<>>
    /\ state = "Leader" /\ log = <<>> /\ committed = 0 /\ applied = 0 /\ snapshot = 0 /\ applying = 0 /\ cmds = <<>>
    /\ channels = {} /\ disruptions = 0
    /\ call = [c \in Caller |-> Idle]

-----------------------------------------------------------------------------
(* RaftInner::join_core_task for caller c, whose other fields are in cl:   *)
(* the first caller takes the JoinHandle, the others watch it.             *)
JoinCoreTask(cl, c) ==
    \/ /\ coreState = "Running"
       /\ coreState' = "Joining" /\ joinTx' = "open"
       /\ call' = [cl EXCEPT ![c].st = "joining"]
    \/ /\ coreState = "Joining"
       /\ call' = [cl EXCEPT ![c].st = "watching"]
       /\ UNCHANGED joinVars
    \/ /\ coreState = "Done"
       /\ call' = IF cl[c].op = "shutdown" THEN [cl EXCEPT ![c].st = "ticking"]
                                           ELSE Finish(cl, c, fatal)
       /\ UNCHANGED joinVars

(* What follows join_core_task: shutdown() goes on to stop the tick loop,  *)
(* get_core_stopped_error reads CoreState::Done, and is unreachable!() in  *)
(* any other state.                                                        *)
AfterJoin(c) ==
    IF call[c].op = "shutdown" THEN [call EXCEPT ![c].st = "ticking"]
    ELSE Finish(call, c, IF coreState' = "Done" THEN fatal ELSE "unreachable")

(* Variant of JoinReturns: the tasks that watch are not told.              *)
JoinReturnsUntold(c) ==
    /\ call[c].st = "joining" /\ core = "gone"
    /\ coreState' = "Done" /\ UNCHANGED joinTx
    /\ call' = AfterJoin(c)
    /\ UNCHANGED <<coreVars, nodeVars, signal, tick, api>>

(* The task that holds the JoinHandle sees the end of RaftCore.            *)
JoinReturns(c) ==
    /\ call[c].st = "joining" /\ core = "gone"
    /\ coreState' = "Done" /\ joinTx' = "sent"
    /\ call' = AfterJoin(c)
    /\ UNCHANGED <<coreVars, nodeVars, signal, tick, api>>

(* Variant of WatchReturns: it does not wait.                              *)
WatchReturnsAtOnce(c) ==
    /\ call[c].st = "watching"
    /\ UNCHANGED <<joinVars, coreVars, nodeVars, signal, tick, api>>
    /\ call' = AfterJoin(c)

(* A task that watches: the sender told it so, or was dropped.             *)
WatchReturns(c) ==
    /\ call[c].st = "watching" /\ joinTx \in {"sent", "dropped"}
    /\ UNCHANGED <<joinVars, coreVars, nodeVars, signal, tick, api>>
    /\ call' = AfterJoin(c)

-----------------------------------------------------------------------------
(* A call is started: the message goes into tx_api; when RaftCore is gone  *)
(* the send fails and the call joins it.                                   *)
Send(cl, c) ==
    \/ /\ core # "gone"
       /\ api' = Append(api, [caller |-> c, op |-> cl[c].op])
       /\ call' = IF cl[c].op = "trigger" THEN Finish(cl, c, "ok") ELSE cl
       /\ UNCHANGED joinVars
    \/ /\ core = "gone" /\ cl[c].op # "sm"
       /\ JoinCoreTask(cl, c)
       /\ UNCHANGED api
    \/ /\ core = "gone" /\ cl[c].op = "sm"    \* external_state_machine_request ignores it
       /\ call' = cl
       /\ UNCHANGED <<joinVars, api>>

Started(c, op) == [call EXCEPT ![c] = [Idle EXCEPT !.op = op, !.st = "sent", !.step = 1]]

Start(c, op) ==
    /\ call[c].st = "idle" /\ op # "shutdown"
    /\ Send(Started(c, op), c)
    /\ UNCHANGED <<coreVars, nodeVars, signal, tick>>

(* Raft::shutdown: take tx_shutdown and send, then wait for RaftCore.      *)
StartShutdown(c) ==
    /\ call[c].st = "idle"
    /\ signal' = "sent"
    /\ JoinCoreTask(Started(c, "shutdown"), c)
    /\ UNCHANGED <<coreVars, nodeVars, tick, api>>

(* TickHandle::shutdown: only the first caller gets the JoinHandle.        *)
ShutdownTick(c) ==
    /\ \/ /\ call[c].st = "ticking" /\ tick = "running"
          /\ tick' = "cancelled" /\ call' = [call EXCEPT ![c].st = "tickwait"]
       \/ /\ \/ call[c].st = "ticking" /\ tick # "running"
             \/ call[c].st = "tickwait" /\ tick = "stopped"
          /\ call' = Finish(call, c, "ok") /\ UNCHANGED tick
    /\ UNCHANGED <<coreVars, nodeVars, joinVars, signal, api>>

(* tick_loop ends on the signal, or when no RaftCore receives its tick.    *)
TickLoopEnds ==
    /\ tick = "cancelled" \/ (tick = "running" /\ core = "gone")
    /\ tick' = "stopped"
    /\ UNCHANGED <<coreVars, nodeVars, joinVars, signal, api, call>>

(* The answer of a call's oneshot channel was dropped unsent: the message  *)
(* was queued, or its responder waiting, when RaftCore went.               *)
Dropped(c) ==
    /\ core = "gone" /\ call[c].st = "sent"

RecvFails(c) ==
    /\ Dropped(c) /\ (call[c].op = "sm" => coreState # "Running")
    /\ JoinCoreTask(call, c)
    /\ UNCHANGED <<coreVars, nodeVars, signal, tick, api>>

(* with_state_machine takes a dropped answer of a core that is_core_running *)
(* for a state machine of another type.                                     *)
RecvFailsWhileRunning(c) ==
    /\ Dropped(c) /\ call[c].op = "sm" /\ coreState = "Running"
    /\ call' = Finish(call, c, "InvalidStateMachineType")
    /\ UNCHANGED <<coreVars, nodeVars, joinVars, signal, tick, api>>

(* The application drops the future of a call, by a timeout of its own.    *)
Cancel(c) ==
    /\ Cardinality({d \in Caller : call[d].st = "dropped"}) < Cancels
    /\ call[c].st \in {"sent", "joining", "watching", "ticking", "tickwait"}
    /\ joinTx' = IF call[c].st = "joining" THEN "dropped" ELSE joinTx
    /\ call' = [call EXCEPT ![c].st = "dropped"]
    /\ UNCHANGED <<coreVars, nodeVars, coreState, signal, tick, api>>

-----------------------------------------------------------------------------
(* RaftCore: one message of the API channel.                               *)
Append1(entry) == log' = Append(log, entry)

Answered(c, res) == IF call[c].st = "sent" THEN Finish(call, c, res) ELSE call

(* write_entry: get_leader_handler_or_reject, a leader that hands over its *)
(* leadership sends its clients away, append, install the channel.         *)
WriteEntry(c) ==
    \/ /\ state = "Leader"
       /\ Append1(<<c, call[c].step>>)
       /\ channels' = {ch \in channels : ch.index # Len(log) + 1}
                          \cup {[index |-> Len(log) + 1, caller |-> c]}
       /\ UNCHANGED call
    \/ /\ state # "Leader"
       /\ call' = Answered(c, "ForwardToLeader")
       /\ UNCHANGED <<log, channels>>

(* ensure_committed: there is a membership entry that is not committed.  A  *)
(* Foreign entry may be one.                                                *)
InProgress == \E k \in (committed + 1)..Len(log) : log[k] # Foreign /\ call[log[k][1]].op = "change"

(* RaftCore::change_membership: this node need not lead to turn it down, as *)
(* it does also for what the changes say.                                   *)
ChangeMembership(c) ==
    \/ ~InProgress /\ WriteEntry(c)
    \/ call' = Answered(c, "ChangeMembershipError") /\ UNCHANGED <<log, channels>>

HandleApiMsg ==
    /\ core = "running" /\ api # <<>>
    /\ api' = Tail(api)
    /\ LET m == Head(api) IN
       \/ m.op = "write" /\ WriteEntry(m.caller)
       \/ m.op = "change" /\ ChangeMembership(m.caller)
       \/ /\ m.op \in {"state", "sm", "trigger"}
          /\ call' = Answered(m.caller, "ok")
          /\ UNCHANGED <<log, channels>>
    /\ UNCHANGED <<coreVars, joinVars, signal, tick, state, committed, applied, snapshot, applying, cmds, disruptions>>

(* The answer Ok(ClientWriteResponse) reaches the caller: change_membership *)
(* sends its second message when the first committed a joint config.        *)
Respond(chs, k, joint) ==
    LET told == {ch.caller : ch \in {x \in chs : x.index = k}}
        again(c) == call[c].op = "change" /\ call[c].step = 1 /\ joint
        live == {c \in told : call[c].st = "sent"} IN
    /\ call' = [c \in Caller |->
                 IF c \notin live THEN call[c]
                 ELSE IF ~again(c) THEN [call[c] EXCEPT !.st = "done", !.res = "ok", !.index = k]
                 ELSE [call[c] EXCEPT !.step = 2]]
    /\ api' = api \o SetToSeq({[caller |-> c, op |-> "change"] : c \in {d \in live : again(d)}})

(* The state machine worker applied the next entry: handle_apply_result.   *)
HandleApplyResult ==
    /\ core = "running" /\ applied < applying
    /\ applied' = applied + 1
    /\ \E joint \in BOOLEAN : Respond(channels, applied + 1, joint)
    /\ channels' = {ch \in channels : ch.index # applied + 1}
    /\ UNCHANGED <<coreVars, joinVars, signal, tick, state, log, committed, snapshot, applying, cmds, disruptions>>

(* A quorum holds the next entry, or the leader says it is committed.      *)
Commit ==
    /\ core = "running" /\ committed < Len(log)
    /\ committed' = committed + 1
    /\ cmds' = Append(cmds, [cmd |-> "SaveCommittedAndApply", since |-> committed + 1])
    /\ UNCHANGED <<coreVars, joinVars, signal, tick, api, call, state, log, applied, snapshot, applying, channels, disruptions>>

(* AppendEntries of another leader at index i: this node steps down, its   *)
(* log is truncated when entry i differs, and extended.  TruncateLog is    *)
(* queued; it runs later when the queue waits for a flush.                 *)
AppendEntries(i) ==
    /\ core = "running" /\ i \in (committed + 1)..(Len(log) + 1) /\ i <= MaxForeign
    /\ state' = "Follower"
    /\ log' = Append(SubSeq(log, 1, i - 1), Foreign)
    /\ \/ i > Len(log) /\ UNCHANGED <<cmds, disruptions>>
       \/ /\ i <= Len(log) /\ disruptions < MaxDisruptions
          /\ disruptions' = disruptions + 1
          /\ cmds' = Append(cmds, [cmd |-> "TruncateLog", since |-> i])
    /\ UNCHANGED <<coreVars, joinVars, signal, tick, api, call, committed, applied, snapshot, applying, channels>>

(* A snapshot that ends at i, of which the first p entries are those of    *)
(* the log here: an entry at i that differs truncates all that is not      *)
(* committed, one that is the same keeps what comes after it.  The state   *)
(* machine worker installs the snapshot after what it was told to apply    *)
(* before.                                                                 *)
InstallFullSnapshot(i, p) ==
    /\ Snapshots /\ core = "running" /\ applied = committed
    /\ i > committed /\ i <= MaxForeign /\ p \in committed..i /\ p <= Len(log)
    /\ state' = "Follower"
    /\ log' = IF p = i THEN log ELSE SubSeq(log, 1, p) \o [k \in 1..(i - p) |-> Foreign]
    /\ \/ (p = i \/ i > Len(log)) /\ UNCHANGED <<cmds, disruptions>>
       \/ /\ p < i /\ i <= Len(log) /\ disruptions < MaxDisruptions
          /\ disruptions' = disruptions + 1
          /\ cmds' = Append(cmds, [cmd |-> "TruncateLog", since |-> committed + 1])
    /\ committed' = i /\ applied' = i /\ applying' = i /\ snapshot' = i
    /\ UNCHANGED <<coreVars, joinVars, signal, tick, api, call, channels>>

(* LeaderHandler::transfer_leader *)
TransferLeader ==
    /\ core = "running" /\ state = "Leader" /\ disruptions < MaxDisruptions
    /\ state' = "Transferring" /\ disruptions' = disruptions + 1
    /\ UNCHANGED <<coreVars, joinVars, signal, tick, api, call, log, committed, applied, snapshot, applying, cmds, channels>>

(* The election timer, and a granted election: the votes are asked for by  *)
(* SendVote, which is behind everything queued before it.                  *)
Elect ==
    /\ core = "running" /\ state \notin {"Leader", "Transferring"} /\ disruptions < MaxDisruptions
    /\ state' = "Candidate" /\ disruptions' = disruptions + 1
    /\ cmds' = Append(cmds, [cmd |-> "SendVote", since |-> 0])
    /\ UNCHANGED <<coreVars, joinVars, signal, tick, api, call, log, committed, applied, snapshot, applying, channels>>

BecomeLeader ==
    /\ core = "running" /\ state = "Candidate" /\ Len(log) < MaxForeign
    /\ ~ \E k \in 1..Len(cmds) : cmds[k].cmd = "SendVote"
    /\ state' = "Leader"
    /\ Append1(Foreign)
    /\ UNCHANGED <<coreVars, joinVars, signal, tick, api, call, committed, applied, snapshot, applying, cmds, channels, disruptions>>

(* Variant of SplitOff: the responders stay.                               *)
SplitOffNothing(since) == {}

(* run_engine_commands: the callers of truncated entries are sent away.    *)
SplitOff(since) == {ch \in channels : ch.index >= since}

RunCommand ==
    /\ core = "running" /\ cmds # <<>>
    /\ cmds' = Tail(cmds)
    /\ \/ /\ Head(cmds).cmd = "TruncateLog"
          /\ LET removed == SplitOff(Head(cmds).since) IN
             /\ channels' = channels \ removed
             /\ call' = [c \in Caller |->
                          IF c \in {ch.caller : ch \in removed} /\ call[c].st = "sent"
                          THEN [call[c] EXCEPT !.st = "done", !.res = "ForwardToLeader"] ELSE call[c]]
          /\ UNCHANGED applying
       \/ /\ Head(cmds).cmd = "SaveCommittedAndApply"
          /\ applying' = Head(cmds).since
          /\ UNCHANGED <<channels, call>>
       \/ /\ Head(cmds).cmd = "SendVote"
          /\ UNCHANGED <<channels, call, applying>>
    /\ UNCHANGED <<coreVars, joinVars, signal, tick, api, state, log, committed, applied, snapshot, disruptions>>

(* RaftCore::main after the loop ended (Metrics has its last reports).     *)
Exit(err) ==
    /\ core' = "exiting" /\ fatal' = err
    /\ UNCHANGED <<joinVars, signal, tick, api, call, nodeVars>>

RecvShutdown == core = "running" /\ signal = "sent" /\ Exit("Stopped")

StorageFailure == StorageFails /\ core = "running" /\ Exit("StorageError")

(* A panic unwinds the task without the steps of main.                     *)
Panic ==
    /\ StorageFails /\ core = "running"
    /\ core' = "exiting" /\ fatal' = "Panicked"
    /\ UNCHANGED <<joinVars, signal, tick, api, call, nodeVars>>

(* The task ends: RaftCore and with it rx_api, the queued messages, the    *)
(* responders are dropped; what this node has stored is not looked at      *)
(* again.                                                                  *)
DropCore ==
    /\ core = "exiting"
    /\ core' = "gone" /\ api' = <<>> /\ channels' = {} /\ cmds' = <<>>
    /\ state' = "Shutdown" /\ log' = <<>> /\ committed' = 0 /\ applied' = 0 /\ snapshot' = 0
    /\ applying' = 0 /\ disruptions' = 0
    /\ UNCHANGED <<fatal, joinVars, signal, tick, call>>

-----------------------------------------------------------------------------
CallStep ==
    \E c \in Caller :
        \/ \E op \in Ops : Start(c, op)
        \/ "shutdown" \in Ops /\ StartShutdown(c)
        \/ Cancel(c)

Returning(c) ==
    JoinReturns(c) \/ WatchReturns(c) \/ ShutdownTick(c) \/ RecvFails(c)
        \/ RecvFailsWhileRunning(c)

ClusterStep ==
    \/ \E i \in 1..MaxLog : AppendEntries(i) \/ \E p \in 0..i : InstallFullSnapshot(i, p)
    \/ TransferLeader \/ Elect \/ BecomeLeader \/ StorageFailure \/ Panic

CoreStep == HandleApiMsg \/ HandleApplyResult \/ RunCommand \/ RecvShutdown \/ DropCore

Next ==
    \/ CallStep
    \/ \E c \in Caller : Returning(c)
    \/ TickLoopEnds
    \/ ClusterStep
    \/ CoreStep
    \/ Commit

Spec == Init /\ [][Next]_vars

(* The loop of RaftCore serves every channel it polls; the runtime polls   *)
(* every task that can go on; an entry a leader keeps is committed in the  *)
(* end.                                                                    *)
Fairness ==
    /\ WF_vars(HandleApiMsg) /\ WF_vars(HandleApplyResult) /\ WF_vars(RunCommand)
    /\ WF_vars(RecvShutdown) /\ WF_vars(DropCore)
    /\ WF_vars(Commit) /\ WF_vars(TickLoopEnds)
    /\ \A c \in Caller : WF_vars(Returning(c))

FairSpec == Spec /\ Fairness
-----------------------------------------------------------------------------
(* The answers of writes are true: Ok is given for the caller's own entry, *)
(* at the index it has, once that entry is applied, and by                 *)
(* change_membership once both its entries are, if the first was a joint   *)
(* config (client_resp_channels is keyed by index alone, TruncateLog must  *)
(* clear what it removes before a later leadership of this node reuses the *)
(* index); a write sent away with ForwardToLeader has no entry in the log  *)
(* of this node, unless a snapshot that truncated the log brought it back. *)
(* RaftCore answers none of this once it is gone.                          *)
AnswerIsOwn ==
    TypeOK /\ (core # "gone" => \A c \in Caller :
        /\ (call[c].op \in {"write", "change"} /\ call[c].res = "ok") =>
               /\ call[c].index <= applied
               /\ log[call[c].index] = <<c, call[c].step>>
               /\ call[c].step = 2 =>
                   \E k \in 1..(call[c].index - 1) : log[k] = <<c, 1>>
        /\ (call[c].op = "write" /\ call[c].res = "ForwardToLeader") =>
               \A k \in (snapshot + 1)..Len(log) : log[k] # <<c, 1>>)

(* shutdown() "waits until RaftCore returns", also when another task       *)
(* shuts down or joins first, unless the task that joins is itself dropped *)
(* (join_core_task takes a dropped watch sender for the end).              *)
ShutdownWaits ==
    \A c \in Caller :
        (call[c].op = "shutdown" /\ call[c].st = "done" /\ joinTx # "dropped") =>
            core = "gone" /\ tick # "running"

(* The inductive invariant behind ShutdownWaits: only the task that waits  *)
(* for the JoinHandle holds the sender the others watch, it sends when     *)
(* RaftCore is gone, and no shutdown() gets past join_core_task before     *)
(* that unless the sender was dropped.                                     *)
CallRecord ==
    [op : Ops \cup {"none"}, step : Nat, index : Nat,
     st : {"idle", "sent", "joining", "watching", "ticking", "tickwait", "done", "dropped"},
     res : {"none", "ok", "ForwardToLeader", "ChangeMembershipError", "unreachable", "InvalidStateMachineType"} \cup Fatals]

CallType ==
    /\ applied \in Nat
    /\ fatal \in Fatals \cup {"none"}
    /\ call \in [Caller -> CallRecord]

JoinInv ==
    /\ coreState \in {"Running", "Joining", "Done"}
    /\ coreState = "Running" <=> joinTx = "none"
    /\ coreState = "Done" => core = "gone"
    /\ joinTx = "sent" => coreState = "Done"
    /\ \A c \in Caller :
           /\ call[c].st = "joining" => coreState = "Joining" /\ joinTx = "open"
           /\ \A d \in Caller : call[c].st = "joining" /\ call[d].st = "joining" => c = d
           /\ call[c].op = "shutdown" => call[c].st \notin {"idle", "sent"}
           /\ call[c].op = "shutdown" /\ call[c].st \in {"ticking", "tickwait", "done"} =>
                  joinTx = "dropped" \/ core = "gone"
           /\ call[c].op = "shutdown" /\ call[c].st \in {"tickwait", "done"} => tick # "running"

ShutdownInv == CallType /\ JoinInv /\ ShutdownWaits

(* No caller of get_core_stopped_error finds a core that has not quit      *)
(* (its unreachable!).                                                     *)
NeverUnreachable == \A c \in Caller : call[c].res # "unreachable"

(* with_state_machine, called with the right state machine type, never     *)
(* reports a wrong one.                                                    *)
TypeNotBlamed == \A c \in Caller : call[c].res # "InvalidStateMachineType"

(* A responder whose entry a snapshot covered: handle_apply_result never   *)
(* sees its index, and TruncateLog did not remove it.                      *)
LeftBehind(c) == \E ch \in channels : ch.caller = c /\ ch.index <= applied

(* Every call returns, or is dropped by its caller, or waits for an entry  *)
(* that a snapshot covered: client writes are answered by the application  *)
(* of their entry, by its truncation or by the end of RaftCore, and the    *)
(* end of RaftCore reaches every caller through one JoinHandle.            *)
EveryCallReturns ==
    \A c \in Caller :
        (call[c].st # "idle") ~> (call[c].st \in {"done", "dropped"} \/ LeftBehind(c))
=============================================================================
