-------------------------------- MODULE MCApi --------------------------------
(***************************************************************************)
(* Instances for TLC of what an application sees of RaftCore: the calls of *)
(* its handle, the loop that serves them, and the metrics.  Each behaviour *)
(* is one of one of the specifications, the others stay where they start.  *)
(***************************************************************************)
EXTENDS ApiCalls

CONSTANTS
    Node, StdLeaderId, Self, Waiter, MaxMoves, MaxIndex,
    Total, Unit, MaxQueue

VARIABLES
    part,                                                       \* the specification that moves
    st, pc, ending, sent, metrics, data, server, wait, moves,   \* of Metrics
    loop, raftMsg, i, full, apiLen, notification, followed,     \* of EventLoop
    shutdownSent, handles

M == INSTANCE Metrics
E == INSTANCE EventLoop WITH pc <- loop, api <- apiLen, signal <- shutdownSent

metricsVars == <<st, pc, ending, sent, metrics, data, server, wait, moves>>
loopVars == <<loop, raftMsg, i, full, apiLen, notification, followed, shutdownSent, handles>>
apiVars == <<part, vars, metricsVars, loopVars>>

\* Callers differ only in their names: let them start in their order.
InOrder == \A c, d \in Caller : c < d /\ call'[c].st = "idle" => call'[d].st = "idle"

CallNext == part = "call" /\ Next /\ InOrder /\ UNCHANGED <<part, metricsVars, loopVars>>
MetricsNext == part = "metrics" /\ M!Next /\ UNCHANGED <<part, vars, loopVars>>
LoopNext == part = "loop" /\ E!Next /\ UNCHANGED <<part, vars, metricsVars>>

ApiInit ==
    /\ part \in {"call", "metrics", "loop"} /\ Init /\ M!Init /\ E!Init
    /\ part = "metrics" \/ ~st.leading

ApiNext == CallNext \/ MetricsNext \/ LoopNext

\* What ApiCalls, Metrics and EventLoop assume of the scheduler.
ApiSpec ==
    /\ ApiInit /\ [][ApiNext]_apiVars
    /\ WF_vars(part = "call" /\ HandleApiMsg) /\ WF_vars(part = "call" /\ HandleApplyResult)
    /\ WF_vars(part = "call" /\ RunCommand) /\ WF_vars(part = "call" /\ RecvShutdown)
    /\ WF_vars(part = "call" /\ DropCore) /\ WF_vars(part = "call" /\ Commit)
    /\ WF_vars(part = "call" /\ TickLoopEnds)
    /\ \A c \in Caller : WF_vars(part = "call" /\ Returning(c))
    /\ WF_metricsVars(part = "metrics" /\ M!Report)
    /\ \A w \in Waiter : WF_metricsVars(part = "metrics" /\ (M!Check(w) \/ M!Changed(w)))
    /\ WF_loopVars(part = "loop" /\ E!Loop)

\* M!WaitTold: a wait gives up for what the node's last state does not meet, and
\* who sees new metrics finds the other two channels up to date.
WaitTold == part = "metrics" => M!WaitTold

\* M!WaitWakes: a wait whose condition the node meets and goes on to meet returns.
WaitWakes == M!WaitWakes

\* E!EveryChannelServed: no message waits for ever behind those of the other
\* channel, nor does a shutdown.
EveryChannelServed == E!EveryChannelServed
==============================================================================
