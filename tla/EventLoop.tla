----------------------------- MODULE EventLoop ------------------------------
(***************************************************************************)
(* RaftCore::runtime_loop: the shutdown signal, the channel of internal    *)
(* notifications and the channel of API messages that one task serves, and *)
(* the Balancer that shares a round between the two channels.              *)
(*                                                                         *)
(* Messages arrive at any time, before a round is over as well; what they  *)
(* do is left to the other modules.  A channel is the number of its        *)
(* messages, and one message among them, followed by its place in its      *)
(* channel, stands for any.                                                *)
(***************************************************************************)
EXTENDS Naturals

CONSTANTS
    Total,   \* the messages of a round, 10_000 in the code
    Unit,    \* what the budget is changed by: one part of Unit, 16 in the code
    MaxQueue \* bound: messages waiting in a channel

VARIABLES
    pc,       \* "select", "raft": in process_raft_msg, "notify": in process_notification, "stopped"
    raftMsg,  \* Balancer.raft_msg
    i,        \* messages handled in process_raft_msg or process_notification
    full,     \* has process_raft_msg used up its budget
    api, notification, \* the messages waiting in the channels
    followed, \* one message: its channel and its place, 0 once it is handled
    signal,   \* has tx_shutdown been sent or dropped, either of which ends rx_shutdown
    handles   \* are there handles Raft<C> left

evars == <<pc, raftMsg, i, full, api, notification, followed, signal, handles>>

Init ==
    /\ pc = "select" /\ raftMsg = Total \div 10 /\ i = 0 /\ full = FALSE
    /\ api = 0 /\ notification = 0
    /\ followed = [chan |-> "none", place |-> 0]
    /\ signal = FALSE /\ handles = TRUE

-----------------------------------------------------------------------------
(* The environment. *)
Arrive(chan) ==
    /\ IF chan = "api" THEN handles /\ api < MaxQueue ELSE notification < MaxQueue
    /\ api' = IF chan = "api" THEN api + 1 ELSE api
    /\ notification' = IF chan = "api" THEN notification ELSE notification + 1
    /\ \/ UNCHANGED followed
       \/ followed.chan = "none" /\ followed' = [chan |-> chan, place |-> IF chan = "api" THEN api' ELSE notification']
    /\ pc # "stopped"
    /\ UNCHANGED <<pc, raftMsg, i, full, signal, handles>>

SendShutdown ==
    /\ handles /\ ~signal /\ signal' = TRUE
    /\ UNCHANGED <<pc, raftMsg, i, full, api, notification, followed, handles>>

(* The last handle goes, and tx_shutdown with it.  The API channel stays    *)
(* open: RaftCore holds a sender of it itself.                              *)
DropHandles ==
    /\ handles /\ handles' = FALSE
    /\ signal' = TRUE
    /\ UNCHANGED <<pc, raftMsg, i, full, api, notification, followed>>

-----------------------------------------------------------------------------
Forward(chan) == IF followed.chan = chan /\ followed.place > 0 THEN [followed EXCEPT !.place = @ - 1] ELSE followed

HandleApiMsg == api > 0 /\ api' = api - 1 /\ followed' = Forward("api") /\ UNCHANGED notification

HandleNotification ==
    notification > 0 /\ notification' = notification - 1 /\ followed' = Forward("notification") /\ UNCHANGED api

Quit == pc' = "stopped" /\ UNCHANGED <<raftMsg, i, full>>

(* Balancer::increase_notification and increase_raft_msg, on u64. *)
AtLeastOne(n) == IF n = 0 THEN 1 ELSE n

\* Variant of IncreaseNotification: the budget of API messages may be used up.
IncreaseNotificationToAll(n) == (n * (Unit - 1)) \div Unit

IncreaseNotification(n) == AtLeastOne((n * (Unit - 1)) \div Unit)

IncreaseRaftMsg(n) ==
    LET more == (n * (Unit + 1)) \div Unit IN IF more > Total \div 2 THEN Total \div 2 ELSE more

-----------------------------------------------------------------------------
(* The select_biased! of the loop: shutdown, notifications, API messages,  *)
(* in this order.                                                          *)
RecvShutdown == pc = "select" /\ signal /\ Quit /\ UNCHANGED <<api, notification, followed, signal, handles>>

RecvFirst ==
    /\ pc = "select" /\ ~signal
    /\ HandleNotification \/ (notification = 0 /\ HandleApiMsg)
    /\ pc' = "raft" /\ i' = 0
    /\ UNCHANGED <<raftMsg, full, signal, handles>>

(* process_raft_msg(at_most): returns i + 1 for an empty channel. *)
ProcessRaftMsg ==
    /\ pc = "raft"
    /\ \/ i < raftMsg /\ HandleApiMsg /\ i' = i + 1 /\ UNCHANGED <<pc, full>>
       \/ /\ i = raftMsg \/ api = 0
          /\ full' = (i = raftMsg \/ i + 1 = raftMsg)
          /\ i' = 0 /\ pc' = "notify"
          /\ UNCHANGED <<api, notification, followed>>
    /\ UNCHANGED <<raftMsg, signal, handles>>

(* process_notification(at_most), and the new budget. *)
ProcessNotification ==
    LET budget == Total - raftMsg
        usedUp == i = budget \/ i + 1 = budget
    IN  /\ pc = "notify"
        /\ \/ i < budget /\ HandleNotification /\ i' = i + 1 /\ UNCHANGED <<pc, full, raftMsg>>
           \/ /\ i = budget \/ notification = 0
              /\ raftMsg' = IF usedUp THEN IncreaseNotification(raftMsg)
                            ELSE IF full THEN IncreaseRaftMsg(raftMsg) ELSE raftMsg
              /\ i' = 0 /\ full' = FALSE /\ pc' = "select"
              /\ UNCHANGED <<api, notification, followed>>
        /\ UNCHANGED <<signal, handles>>

(* run_engine_commands fails, after any message. *)
StorageFailure == pc \in {"raft", "notify"} /\ Quit /\ UNCHANGED <<api, notification, followed, signal, handles>>

Loop == RecvShutdown \/ RecvFirst \/ ProcessRaftMsg \/ ProcessNotification

Next == Loop \/ StorageFailure \/ Arrive("api") \/ Arrive("notification") \/ SendShutdown \/ DropHandles

(* The runtime polls RaftCore; nothing is assumed of those who send.       *)
Fairness == WF_evars(Loop)

FairSpec == Init /\ [][Next]_evars /\ Fairness
-----------------------------------------------------------------------------
(* "every channel won't be starved" (balancer.rs) and "a message flood in  *)
(* `tx_api` won't block shutting down" (runtime_loop): however fast the    *)
(* channels fill, any message in either is handled, and a shutdown is      *)
(* obeyed, or the loop ends for another reason.                            *)
EveryChannelServed ==
    /\ (followed.place > 0) ~> (followed.place = 0 \/ pc = "stopped")
    /\ signal ~> (pc = "stopped")
=============================================================================
