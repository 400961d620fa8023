--------------------------- MODULE ApiCallsProofs ----------------------------
(***************************************************************************)
(* Raft::shutdown() waits for the end of RaftCore, for any number of tasks *)
(* that call, join, watch and drop their futures.                          *)
(***************************************************************************)
EXTENDS ApiCalls, TLAPS

\* Raft::new: nobody has called yet.
LEMMA ShutdownInit == Init => ShutdownInv
  BY DEF Init, ShutdownInv, CallType, CallRecord, JoinInv, ShutdownWaits, Idle, Fatals

\* Steps that touch neither join_core_task nor the tick loop: they may end calls
\* that wait for an answer of RaftCore, which shutdown() never does.
LEMMA QuietStep ==
    ASSUME ShutdownInv, CallType', UNCHANGED <<coreState, joinTx, tick>>,
           core = "gone" => core' = "gone",
           \A c \in Caller :
               /\ call'[c].op = call[c].op
               /\ call'[c].st = call[c].st \/ (call[c].st = "sent" /\ call'[c].st = "done")
    PROVE  ShutdownInv'
  <1>1. JoinInv'
    BY DEF ShutdownInv, JoinInv
  <1>2. ShutdownWaits'
    BY DEF ShutdownInv, JoinInv, ShutdownWaits
  <1>. QED
    BY <1>1, <1>2 DEF ShutdownInv

\* The same when no call is touched.
LEMMA UntouchedStep ==
    ASSUME ShutdownInv, UNCHANGED <<coreState, joinTx, tick, call>>,
           applied' \in Nat, fatal' \in Fatals \cup {"none"}, core = "gone" => core' = "gone"
    PROVE  ShutdownInv'
  BY QuietStep DEF ShutdownInv, CallType

\* Ending a call keeps the types.
LEMMA FinishTyped ==
    ASSUME NEW cl \in [Caller -> CallRecord], NEW c \in Caller,
           NEW res \in Fatals \cup {"none", "ok", "unreachable"}
    PROVE  /\ Finish(cl, c, res) \in [Caller -> CallRecord]
           /\ Finish(cl, c, res)[c].st = "done" /\ Finish(cl, c, res)[c].op = cl[c].op
           /\ \A d \in Caller \ {c} : Finish(cl, c, res)[d] = cl[d]
  BY Zenon DEF Finish, CallRecord

\* A call is given a result while it waits for its answer.
LEMMA FinishSent ==
    ASSUME CallType, NEW c, NEW res,
           res \in {"ok", "ForwardToLeader", "ChangeMembershipError", "InvalidStateMachineType"} \cup Fatals,
           call' = IF call[c].st = "sent" THEN Finish(call, c, res) ELSE call
    PROVE  /\ call' \in [Caller -> CallRecord]
           /\ \A d \in Caller :
                  /\ call'[d].op = call[d].op
                  /\ call'[d].st = call[d].st \/ (call[d].st = "sent" /\ call'[d].st = "done")
  BY Zenon DEF CallType, CallRecord, Finish

\* join_core_task by a task that is not waiting for RaftCore yet.
LEMMA JoinKeeps ==
    ASSUME ShutdownInv, NEW c \in Caller, NEW cl \in [Caller -> CallRecord],
           call[c].st \in {"idle", "sent"}, cl[c].st = "sent",
           \A d \in Caller \ {c} : cl[d] = call[d],
           JoinCoreTask(cl, c), UNCHANGED <<core, fatal, tick, applied>>
    PROVE  ShutdownInv'
  <1>1. \A d \in Caller \ {c} : call'[d] = call[d]
    BY DEF JoinCoreTask, Finish, CallRecord
  <1>2. CASE coreState = "Running" /\ coreState' = "Joining" /\ joinTx' = "open"
             /\ call' = [cl EXCEPT ![c].st = "joining"]
    <2>1. CallType' /\ call'[c].st = "joining"
      <3>. DEFINE rec == [cl[c] EXCEPT !.st = "joining"]
      <3>1. cl[c] \in CallRecord
        OBVIOUS
      <3>2. rec \in CallRecord /\ rec.st = "joining"
        BY <3>1 DEF CallRecord
      <3>3. call' = [cl EXCEPT ![c] = rec]
        BY <1>2
      <3>. HIDE DEF rec
      <3>4. call' \in [Caller -> CallRecord] /\ call'[c] = rec
        BY <3>2, <3>3
      <3>. QED
        BY <1>2, <3>2, <3>4 DEF ShutdownInv, CallType
    <2>2. JoinInv'
      BY <1>1, <1>2, <2>1 DEF ShutdownInv, JoinInv
    <2>3. ShutdownWaits'
      BY <1>1, <1>2, <2>1, <2>2 DEF ShutdownInv, JoinInv, ShutdownWaits
    <2>. QED
      BY <2>1, <2>2, <2>3 DEF ShutdownInv
  <1>3. CASE coreState = "Joining" /\ call' = [cl EXCEPT ![c].st = "watching"] /\ UNCHANGED joinVars
    <2>1. CallType' /\ call'[c].st = "watching"
      BY <1>3 DEF ShutdownInv, CallType, CallRecord
    <2>2. JoinInv'
      BY <1>1, <1>3, <2>1 DEF ShutdownInv, JoinInv, joinVars
    <2>3. ShutdownWaits'
      BY <1>1, <1>3, <2>1 DEF ShutdownInv, ShutdownWaits, joinVars
    <2>. QED
      BY <2>1, <2>2, <2>3 DEF ShutdownInv
  <1>4. CASE coreState = "Done" /\ UNCHANGED joinVars
             /\ call' = IF cl[c].op = "shutdown" THEN [cl EXCEPT ![c].st = "ticking"]
                                                 ELSE Finish(cl, c, fatal)
    <2>1. core = "gone"
      BY <1>4 DEF ShutdownInv, JoinInv
    <2>2. CASE cl[c].op = "shutdown"
      <3>1. CallType' /\ call'[c].st = "ticking"
        BY <1>4, <2>2 DEF ShutdownInv, CallType, CallRecord
      <3>2. JoinInv'
        BY <1>1, <1>4, <2>1, <3>1 DEF ShutdownInv, JoinInv, joinVars
      <3>3. ShutdownWaits'
        BY <1>1, <1>4, <2>1, <3>1 DEF ShutdownInv, ShutdownWaits, joinVars
      <3>. QED
        BY <3>1, <3>2, <3>3 DEF ShutdownInv
    <2>3. CASE cl[c].op # "shutdown"
      <3>1. CallType' /\ call'[c].st = "done" /\ call'[c].op # "shutdown"
        <4>1. call' = Finish(cl, c, fatal) /\ CallType
          BY <1>4, <2>3 DEF ShutdownInv
        <4>. QED
          BY <2>3, <4>1, FinishTyped DEF CallType
      <3>2. JoinInv'
        BY <1>1, <1>4, <2>1, <3>1 DEF ShutdownInv, JoinInv, joinVars
      <3>3. ShutdownWaits'
        BY <1>1, <1>4, <2>1, <3>1 DEF ShutdownInv, ShutdownWaits, joinVars
      <3>. QED
        BY <3>1, <3>2, <3>3 DEF ShutdownInv
    <2>. QED
      BY <2>2, <2>3
  <1>. QED
    BY <1>2, <1>3, <1>4 DEF JoinCoreTask

\* A task that waited for RaftCore goes on: RaftCore is gone, or the sender the
\* task watched was dropped.
LEMMA AfterJoinKeeps ==
    ASSUME ShutdownInv, NEW c \in Caller, call[c].st \in {"joining", "watching"},
           call' = AfterJoin(c), UNCHANGED <<core, fatal, tick, applied>>,
           \/ core = "gone" /\ coreState' = "Done" /\ joinTx' = "sent" /\ call[c].st = "joining"
           \/ UNCHANGED joinVars /\ call[c].st = "watching" /\ joinTx \in {"sent", "dropped"}
    PROVE  ShutdownInv'
  <1>1. \A d \in Caller \ {c} : call'[d] = call[d]
    BY DEF AfterJoin, Finish, ShutdownInv, CallType, CallRecord
  <1>2. /\ call'[c].op = call[c].op
        /\ call'[c].st = IF call[c].op = "shutdown" THEN "ticking" ELSE "done"
    BY DEF AfterJoin, Finish, ShutdownInv, CallType, CallRecord
  <1>3. CallType'
    <2>1. CASE call[c].op = "shutdown"
      BY <2>1 DEF AfterJoin, ShutdownInv, CallType, CallRecord
    <2>2. CASE call[c].op # "shutdown"
      BY <2>2, FinishTyped DEF AfterJoin, ShutdownInv, CallType
    <2>. QED
      BY <2>1, <2>2
  <1>4. joinTx' = "dropped" \/ core = "gone"
    BY DEF ShutdownInv, JoinInv, joinVars
  <1>5. JoinInv'
    <2>1. CASE core = "gone" /\ coreState' = "Done" /\ joinTx' = "sent" /\ call[c].st = "joining"
      BY <1>1, <1>2, <1>4, <2>1 DEF ShutdownInv, JoinInv
    <2>2. CASE UNCHANGED joinVars
      BY <1>1, <1>2, <1>4, <2>2 DEF ShutdownInv, JoinInv, joinVars
    <2>. QED
      BY <2>1, <2>2
  <1>6. ShutdownWaits'
    BY <1>5 DEF JoinInv, ShutdownWaits
  <1>. QED
    BY <1>3, <1>5, <1>6 DEF ShutdownInv

\* Raft::shutdown: the tick loop is told to end by the first, and awaited.
LEMMA ShutdownTickKeeps ==
    ASSUME ShutdownInv, NEW c \in Caller, ShutdownTick(c) PROVE ShutdownInv'
  <1>1. UNCHANGED <<core, fatal, coreState, joinTx, applied>>
    BY DEF ShutdownTick, coreVars, nodeVars, joinVars
  <1>2. CASE call[c].st = "ticking" /\ tick' = "cancelled" /\ call' = [call EXCEPT ![c].st = "tickwait"]
    <2>1. /\ CallType' /\ call'[c].st = "tickwait" /\ call'[c].op = call[c].op
          /\ \A d \in Caller \ {c} : call'[d] = call[d]
      BY <1>1, <1>2 DEF ShutdownInv, CallType, CallRecord
    <2>2. JoinInv'
      BY <1>1, <1>2, <2>1 DEF ShutdownInv, JoinInv
    <2>. QED
      BY <2>1, <2>2 DEF ShutdownInv, JoinInv, ShutdownWaits
  <1>3. CASE /\ call' = Finish(call, c, "ok") /\ UNCHANGED tick
             /\ \/ call[c].st = "ticking" /\ tick # "running"
                \/ call[c].st = "tickwait" /\ tick = "stopped"
    <2>1. /\ CallType' /\ call'[c].st = "done" /\ call'[c].op = call[c].op
          /\ \A d \in Caller \ {c} : call'[d] = call[d]
      BY <1>1, <1>3, FinishTyped DEF ShutdownInv, CallType
    <2>2. JoinInv'
      BY <1>1, <1>3, <2>1 DEF ShutdownInv, JoinInv
    <2>. QED
      BY <2>1, <2>2 DEF ShutdownInv, JoinInv, ShutdownWaits
  <1>. QED
    BY <1>2, <1>3 DEF ShutdownTick

\* A future is dropped: if it held the JoinHandle, those that watch see that.
LEMMA CancelKeeps ==
    ASSUME ShutdownInv, NEW c \in Caller, Cancel(c) PROVE ShutdownInv'
  <1>1. /\ UNCHANGED <<core, fatal, coreState, tick, applied>>
        /\ joinTx' = IF call[c].st = "joining" THEN "dropped" ELSE joinTx
        /\ call[c].st \in {"sent", "joining", "watching", "ticking", "tickwait"}
    BY DEF Cancel, coreVars, nodeVars
  <1>2. /\ CallType' /\ call'[c].st = "dropped" /\ call'[c].op = call[c].op
        /\ \A d \in Caller \ {c} : call'[d] = call[d]
    BY <1>1 DEF Cancel, ShutdownInv, CallType, CallRecord
  <1>3. JoinInv'
    BY <1>1, <1>2 DEF ShutdownInv, JoinInv
  <1>. QED
    BY <1>1, <1>2, <1>3 DEF ShutdownInv, JoinInv, ShutdownWaits

\* The application starts a call other than shutdown().
LEMMA StartKeeps ==
    ASSUME ShutdownInv, NEW c \in Caller, NEW op \in Ops, Start(c, op) PROVE ShutdownInv'
  <1>. DEFINE cl == Started(c, op)
  <1>1. /\ cl \in [Caller -> CallRecord] /\ cl[c].st = "sent" /\ cl[c].op = op
        /\ \A d \in Caller \ {c} : cl[d] = call[d]
    BY Zenon DEF Started, Idle, ShutdownInv, CallType, CallRecord
  <1>2. /\ call[c].st = "idle" /\ op # "shutdown" /\ Send(cl, c)
        /\ UNCHANGED <<core, fatal, tick, applied>>
    BY DEF Start, coreVars, nodeVars
  <1>. HIDE DEF cl
  <1>3. CASE UNCHANGED joinVars /\ call' = IF cl[c].op = "trigger" THEN Finish(cl, c, "ok") ELSE cl
    <2>1. /\ CallType' /\ call'[c].st \in {"sent", "done"} /\ call'[c].op # "shutdown"
          /\ \A d \in Caller \ {c} : call'[d] = call[d]
      BY <1>1, <1>2, <1>3, FinishTyped DEF ShutdownInv, CallType
    <2>2. JoinInv'
      BY <1>2, <1>3, <2>1 DEF ShutdownInv, JoinInv, joinVars
    <2>. QED
      BY <1>2, <1>3, <2>1, <2>2 DEF ShutdownInv, ShutdownWaits, joinVars
  <1>4. CASE JoinCoreTask(cl, c)
    BY <1>1, <1>2, <1>4, JoinKeeps
  <1>5. CASE UNCHANGED joinVars /\ call' = cl
    <2>1. JoinInv'
      BY <1>1, <1>2, <1>5 DEF ShutdownInv, JoinInv, joinVars
    <2>. QED
      BY <1>1, <1>2, <1>5, <2>1 DEF ShutdownInv, CallType, ShutdownWaits, joinVars
  <1>. QED
    BY <1>2, <1>3, <1>4, <1>5 DEF Send

\* RaftCore hands out answers: for a message, an applied entry, a truncated one.
LEMMA CoreAnswersKeep ==
    ASSUME ShutdownInv, HandleApiMsg \/ HandleApplyResult \/ RunCommand PROVE ShutdownInv'
  <1>1. UNCHANGED <<core, fatal, coreState, joinTx, tick>> /\ CallType
    BY Zenon DEF HandleApiMsg, HandleApplyResult, RunCommand, coreVars, joinVars, ShutdownInv
  <1>2. CASE HandleApiMsg
    <2>1. applied' = applied
      BY <1>2 DEF HandleApiMsg
    <2>2. \/ UNCHANGED call
          \/ \E c, res : /\ res \in {"ok", "ForwardToLeader", "ChangeMembershipError"}
                         /\ call' = IF call[c].st = "sent" THEN Finish(call, c, res) ELSE call
      BY <1>2 DEF HandleApiMsg, WriteEntry, ChangeMembership, Answered
    <2>3. CASE UNCHANGED call
      BY <1>1, <2>1, <2>3, UntouchedStep DEF CallType
    <2>4. ASSUME NEW c, NEW res, res \in {"ok", "ForwardToLeader", "ChangeMembershipError"},
                 call' = IF call[c].st = "sent" THEN Finish(call, c, res) ELSE call
          PROVE  ShutdownInv'
      <3>1. /\ call' \in [Caller -> CallRecord]
            /\ \A d \in Caller :
                   /\ call'[d].op = call[d].op
                   /\ call'[d].st = call[d].st \/ (call[d].st = "sent" /\ call'[d].st = "done")
        BY <1>1, <2>4, FinishSent
      <3>2. CallType'
        BY <1>1, <2>1, <3>1 DEF CallType
      <3>. QED
        BY <1>1, <3>1, <3>2, QuietStep
    <2>. QED
      BY <2>2, <2>3, <2>4
  <1>3. CASE HandleApplyResult
    <2>1. applied' = applied + 1 /\ applied' \in Nat
      BY <1>1, <1>3 DEF HandleApplyResult, CallType
    <2>2. /\ call' \in [Caller -> CallRecord]
          /\ \A d \in Caller :
                 /\ call'[d].op = call[d].op
                 /\ call'[d].st = call[d].st \/ (call[d].st = "sent" /\ call'[d].st = "done")
      <3>. DEFINE live == {c \in {ch.caller : ch \in {x \in channels : x.index = applied + 1}} :
                               call[c].st = "sent"}
      <3>1. PICK joint \in BOOLEAN : call' = [c \in Caller |->
                IF c \notin live THEN call[c]
                ELSE IF ~(call[c].op = "change" /\ call[c].step = 1 /\ joint)
                     THEN [call[c] EXCEPT !.st = "done", !.res = "ok", !.index = applied + 1]
                ELSE [call[c] EXCEPT !.step = 2]]
        BY <1>3, Zenon DEF HandleApplyResult, Respond
      <3>2. \A c \in Caller : call[c] \in CallRecord
        BY <1>1 DEF CallType
      <3>3. \A c \in live : call[c].st = "sent"
        OBVIOUS
      <3>. HIDE DEF live
      <3>. QED
        BY <2>1, <3>1, <3>2, <3>3, ZenonT(30) DEF CallRecord
    <2>3. CallType'
      BY <1>1, <2>1, <2>2 DEF CallType
    <2>. QED
      BY <1>1, <2>2, <2>3, QuietStep
  <1>4. CASE RunCommand
    <2>1. applied' = applied
      BY <1>4, Zenon DEF RunCommand
    <2>2. CASE UNCHANGED call
      BY <1>1, <2>1, <2>2, UntouchedStep DEF CallType
    <2>3. CASE ~UNCHANGED call
      <3>1. PICK R : call' = [c \in Caller |->
                          IF c \in {ch.caller : ch \in R} /\ call[c].st = "sent"
                          THEN [call[c] EXCEPT !.st = "done", !.res = "ForwardToLeader"] ELSE call[c]]
        BY <1>4, <2>3, Zenon DEF RunCommand
      <3>2. /\ call' \in [Caller -> CallRecord]
            /\ \A d \in Caller :
                   /\ call'[d].op = call[d].op
                   /\ call'[d].st = call[d].st \/ (call[d].st = "sent" /\ call'[d].st = "done")
        BY <1>1, <3>1, ZenonT(30) DEF CallType, CallRecord
      <3>3. CallType'
        BY <1>1, <2>1, <3>2 DEF CallType
      <3>. QED
        BY <1>1, <3>2, <3>3, QuietStep
    <2>. QED
      BY <2>2, <2>3
  <1>. QED
    BY <1>2, <1>3, <1>4

\* Every step keeps the invariant.
LEMMA ShutdownNext == ShutdownInv /\ [Next]_vars => ShutdownInv'
  <1>. SUFFICES ASSUME ShutdownInv, [Next]_vars PROVE ShutdownInv'
    OBVIOUS
  <1>0. applied \in Nat /\ fatal \in Fatals \cup {"none"} /\ CallType
    BY DEF ShutdownInv, CallType
  <1>1. ASSUME NEW c \in Caller, NEW op \in Ops, Start(c, op) PROVE ShutdownInv'
    BY <1>1, StartKeeps
  <1>2. ASSUME NEW c \in Caller, "shutdown" \in Ops, StartShutdown(c) PROVE ShutdownInv'
    <2>1. /\ Started(c, "shutdown") \in [Caller -> CallRecord] /\ Started(c, "shutdown")[c].st = "sent"
          /\ \A d \in Caller \ {c} : Started(c, "shutdown")[d] = call[d]
      BY <1>2, Zenon DEF Started, Idle, ShutdownInv, CallType, CallRecord
    <2>. QED
      BY <1>2, <2>1, JoinKeeps DEF StartShutdown, coreVars, nodeVars
  <1>3. ASSUME NEW c \in Caller, Cancel(c) PROVE ShutdownInv'
    BY <1>3, CancelKeeps
  <1>4. ASSUME NEW c \in Caller, JoinReturns(c) \/ WatchReturns(c) PROVE ShutdownInv'
    BY <1>4, AfterJoinKeeps DEF JoinReturns, WatchReturns, coreVars, nodeVars, joinVars
  <1>5. ASSUME NEW c \in Caller, ShutdownTick(c) PROVE ShutdownInv'
    BY <1>5, ShutdownTickKeeps
  <1>6. ASSUME NEW c \in Caller, RecvFails(c) PROVE ShutdownInv'
    BY <1>0, <1>6, JoinKeeps DEF RecvFails, Dropped, CallType, coreVars, nodeVars
  <1>7. ASSUME NEW c \in Caller, RecvFailsWhileRunning(c) PROVE ShutdownInv'
    <2>1. call' = IF call[c].st = "sent" THEN Finish(call, c, "InvalidStateMachineType") ELSE call
      BY <1>7 DEF RecvFailsWhileRunning, Dropped
    <2>2. UNCHANGED <<core, fatal, coreState, joinTx, tick, applied>>
      BY <1>7 DEF RecvFailsWhileRunning, coreVars, nodeVars, joinVars
    <2>. QED
      BY <1>0, <2>1, <2>2, FinishSent, QuietStep DEF CallType
  <1>8. CASE TickLoopEnds
    <2>1. UNCHANGED <<core, fatal, coreState, joinTx, applied, call>> /\ tick' = "stopped"
      BY <1>8 DEF TickLoopEnds, coreVars, nodeVars, joinVars
    <2>. QED
      BY <2>1 DEF ShutdownInv, CallType, JoinInv, ShutdownWaits
  <1>9. ASSUME NEW i \in 1..MaxLog, AppendEntries(i) PROVE ShutdownInv'
    BY <1>0, <1>9, UntouchedStep DEF AppendEntries, coreVars, joinVars
  <1>10. ASSUME NEW i \in 1..MaxLog, NEW p \in 0..i, InstallFullSnapshot(i, p) PROVE ShutdownInv'
    BY <1>0, <1>10, UntouchedStep DEF InstallFullSnapshot, coreVars, joinVars
  <1>11. CASE TransferLeader \/ Elect \/ BecomeLeader \/ Commit
    BY <1>0, <1>11, UntouchedStep DEF TransferLeader, Elect, BecomeLeader, Commit, coreVars, joinVars
  <1>12. CASE StorageFailure \/ Panic \/ RecvShutdown
    BY <1>0, <1>12, UntouchedStep
       DEF StorageFailure, Panic, RecvShutdown, Exit, Fatals, joinVars, nodeVars
  <1>13. CASE HandleApiMsg \/ HandleApplyResult \/ RunCommand
    BY <1>13, CoreAnswersKeep
  <1>14. CASE DropCore
    BY <1>0, <1>14, UntouchedStep DEF DropCore, joinVars
  <1>15. CASE UNCHANGED vars
    BY <1>0, <1>15, UntouchedStep DEF vars
  <1>. QED
    BY <1>1, <1>2, <1>3, <1>4, <1>5, <1>6, <1>7, <1>8, <1>9, <1>10, <1>11, <1>12, <1>13, <1>14, <1>15
       DEF Next, CallStep, Returning, ClusterStep, CoreStep

\* Whatever tasks call, join, watch and drop their futures, at most one of them
\* holds the JoinHandle of RaftCore and it tells the others when RaftCore is gone.
THEOREM ShutdownInvHolds == Spec => []ShutdownInv
  BY ShutdownInit, ShutdownNext, PTL DEF Spec

\* Raft::shutdown() returns after RaftCore and its ticks have ended, unless the
\* future of the task that joins was dropped.
THEOREM ShutdownReturnsLast == Spec => []ShutdownWaits
  <1>1. ShutdownInv => ShutdownWaits
    BY DEF ShutdownInv
  <1>. QED
    BY <1>1, ShutdownInvHolds, PTL
==============================================================================
