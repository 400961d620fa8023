----------------------------- MODULE LinearRead ------------------------------
(***************************************************************************)
(* Linearizable reads: Raft::ensure_linearizable, the check-is-leader      *)
(* request of RaftCore and the read log id of a leader, while leaders      *)
(* change, restart and commit (docs/protocol/read.md).                     *)
(*                                                                         *)
(* The confirmations of a read race with everything else, one at a time.   *)
(* Elections and replication are here only as far as a read depends on     *)
(* them; Raft has their details.  A call and its answer are one step, an   *)
(* election may begin at any time, and what a node writes is flushed at    *)
(* once.  Every node is a voter.                                           *)
(*                                                                         *)
(* A leader told to elect keeps its leader state, under the vote it was    *)
(* elected with, beside its new candidate (the debug assertions of         *)
(* Engine::leader_handler and Engine::following_handler stop a build that  *)
(* has them there; this is what the others do).                            *)
(***************************************************************************)
EXTENDS RaftTypes, QuorumSet, FiniteSetsExt

CONSTANTS
    Electable,      \* for each term, the nodes that may ask for votes in it
    SavesCommitted, \* TRUE: the log store implements save_committed
    MaxLog, MaxRestarts

VARIABLES
    node,    \* the state of each node
    read,    \* a call of ensure_linearizable, NoRead if there is none
    stale,   \* whether a read has missed what was committed before it began
    restarts \* the number of restarts

vars == <<node, read, stale, restarts>>

LastTerm == Len(Electable)

NotLeading == [vote |-> DefaultVote, noop |-> 0, matching |-> <<>>]
NoRead ==
    [node |-> NoNode, vote |-> DefaultVote, upto |-> 0, matching |-> <<>>, committed |-> 0, floor |-> 0,
     granted |-> {}]

IdAt(l, i) == IF i = 0 THEN NoLogId ELSE NewLogId(l[i], i)
LastId(l) == IdAt(l, Len(l))

IsLeader(x, n) == x.vote.node = n /\ x.vote.committed
Leading(x) == x.lead # NotLeading

------------------------------------------------------------------------------
\* update_matching: a log of this leader that a quorum holds is committed.
UpdateMatching(x, m, i) ==
    LET matching == [x.lead.matching EXCEPT ![m] = Max({@, i})]
        granted == Max({k \in 0..Len(x.log) : IsMajority(Node, {t \in Node : matching[t] >= k})})
        y == [x EXCEPT !.lead.matching = matching]
    IN  IF granted > 0 /\ IsSameLeader(x.lead.vote, IdAt(x.log, granted))
        THEN [y EXCEPT !.committed = Max({@, granted})]
        ELSE y

\* leader_append_entries with one entry, flushed at once
LeaderAppendEntry(x, n) ==
    UpdateMatching([x EXCEPT !.log = Append(@, CommittedLeaderId(x.lead.vote))], n, Len(x.log) + 1)

\* Leader::new: the noop log id is that of the leader's first log.
NewLeader(x) ==
    LET own == {i \in DOMAIN x.log : IsSameLeader(x.vote, IdAt(x.log, i))}
    IN  [vote     |-> x.vote,
         noop     |-> IF own = {} THEN Len(x.log) + 1 ELSE Min(own),
         matching |-> [m \in Node |-> 0]]

\* become_leader and establish_leader: a leader without a log proposes a blank
\* one.
BecomeLeader(x, n) ==
    LET y == [x EXCEPT !.lead = NewLeader(x), !.granted = {}, !.last = NoLogId]
    IN  IF y.lead.noop > Len(y.log) THEN LeaderAppendEntry(y, n)
        ELSE UpdateMatching(y, n, Len(y.log))

\* update_vote for the vote of another node
Follow(x, v) ==
    [x EXCEPT !.vote = v, !.accepted = IF x.vote = v THEN @ ELSE 0,
              !.lead = NotLeading, !.granted = {}, !.last = NoLogId]

\* update_vote for a vote in an answer, which may be this node's own by now
TryFollow(x, v) == IF VoteLeq(x.vote, v) /\ v # x.vote THEN Follow(x, v) ELSE x

HasLogId(x, l, i) == i <= x.committed \/ (i <= Len(x.log) /\ x.log[i] = l[i])

\* Engine::handle_append_entries with the logs p+1..q of l, for a vote that is
\* not smaller: the log matches at p, where the leader has seen it match.
HandleAppendEntries(x, v, l, p, q, committed) ==
    LET y == Follow(x, v)
        missing == {i \in p + 1..q : ~HasLogId(y, l, i)}
        accepted == Max({y.accepted, q})
    IN  [y EXCEPT !.log = IF missing = {} THEN @
                          ELSE SubSeq(@, 1, Min(missing) - 1) \o SubSeq(l, Min(missing), q),
                  !.accepted = accepted,
                  !.committed = Max({@, Min({accepted, committed})})]

------------------------------------------------------------------------------
Pristine ==
    [vote |-> DefaultVote, log |-> <<>>, committed |-> 0, accepted |-> 0,
     granted |-> {}, last |-> NoLogId, lead |-> NotLeading]

\* Every node holds the log written by initialize.
Init ==
    /\ node = [n \in Node |-> [Pristine EXCEPT !.log = <<CommittedLeaderId(DefaultVote)>>]]
    /\ read = NoRead
    /\ stale = FALSE
    /\ restarts = 0

\* Engine::elect, by the election timer or by Trigger::elect, which does not ask
\* whether this node leads: a leader stays one under its old vote.  last is the
\* candidate's, and the vote this node gives itself is counted at once.
Elect(n) ==
    LET x == node[n]
        v == NewVote(x.vote.term + 1, n)
    IN  /\ x.vote.term < LastTerm /\ n \in Electable[v.term]
        /\ node' = [node EXCEPT ![n] = [x EXCEPT !.vote = v, !.accepted = 0, !.granted = {n},
                                                 !.last = LastId(x.log)]]
        /\ UNCHANGED <<read, stale, restarts>>

\* A vote request to m, and the answer unless it is lost: handle_vote_req and
\* handle_vote_resp, with establish_leader.
RequestVote(n, m, answered) ==
    LET x == node[n]
        y == node[m]
        ok == LogIdLeq(LastId(y.log), x.last) /\ VoteLeq(y.vote, x.vote)
        granted == x.granted \cup {m}
    IN  /\ x.granted # {} /\ m \notin x.granted
        /\ node' = [node EXCEPT
               ![m] = IF ok THEN Follow(@, x.vote) ELSE @,
               ![n] = IF ~answered THEN @
                      ELSE IF ~ok THEN TryFollow(@, y.vote)
                      ELSE IF IsMajority(Node, granted)
                      THEN BecomeLeader([@ EXCEPT !.vote = ToCommitted(@)], n)
                      ELSE [@ EXCEPT !.granted = granted]]
        /\ UNCHANGED <<read, stale, restarts>>

\* RaftCore::write_entry
Write(n) ==
    /\ Leading(node[n])
    /\ Len(node[n].log) < MaxLog
    /\ node' = [node EXCEPT ![n] = LeaderAppendEntry(@, n)]
    /\ UNCHANGED <<read, stale, restarts>>

\* Replication of all m lacks and the notification it ends in: progress, unless
\* the answer is lost, or HigherVote.
Replicate(n, m, answered) ==
    LET x == node[n]
        q == Len(x.log)
        v == x.lead.vote
    IN  /\ Leading(x) /\ m # n
        /\ node' = IF VoteLeq(node[m].vote, v)
                   THEN [node EXCEPT
                            ![m] = HandleAppendEntries(@, v, x.log, x.lead.matching[m], q, x.committed),
                            ![n] = IF answered THEN UpdateMatching(@, m, q) ELSE @]
                   ELSE [node EXCEPT ![n] = IF answered THEN TryFollow(@, node[m].vote) ELSE @]
        /\ UNCHANGED <<read, stale, restarts>>

------------------------------------------------------------------------------
\* Variant of ReadLogId: a leader reads at its committed log even before its blank log.
ReadLogIdCommitted(x) == x.committed

\* LeaderHandler::get_read_log_id
ReadLogId(x) == Max({x.lead.noop, x.committed})

\* handle_check_is_leader_request: the read log id is taken before the
\* confirmations are asked for; they are asked for with the vote of this node,
\* not the leader's.  floor is for the property.
StartRead(n) ==
    LET x == node[n]
    IN  /\ read = NoRead
        /\ Leading(x)
        /\ read' = [node |-> n, vote |-> x.vote, upto |-> ReadLogId(x),
                    matching |-> x.lead.matching, committed |-> x.committed,
                    floor |-> Max({node[m].committed : m \in Node}), granted |-> {n}]
        /\ UNCHANGED <<node, stale, restarts>>

\* The request is turned down by a node whose vote is not smaller.
Confirmed(y) == VoteLeq(y.vote, read.vote)

\* The append-entries of the read reaches m and is answered: a higher vote fails
\* the read and is reported to RaftCore, any other answer confirms it.
ConfirmRead(m) ==
    LET n == read.node
        p == read.matching[m]
        accepts == VoteLeq(node[m].vote, read.vote)
    IN  /\ read # NoRead /\ m \notin read.granted
        /\ read' = IF Confirmed(node[m]) THEN [read EXCEPT !.granted = @ \cup {m}] ELSE NoRead
        /\ node' = IF accepts
                   THEN [node EXCEPT ![m] = HandleAppendEntries(@, read.vote, <<>>, p, p, read.committed)]
                   ELSE [node EXCEPT ![n] = IF @.lead.vote = ToCommitted(read.vote) THEN TryFollow(@, node[m].vote) ELSE @]
        /\ UNCHANGED <<stale, restarts>>

\* ensure_linearizable returns: a quorum has confirmed, and the state machine
\* has applied upto, and may have applied nothing after it.  stale does not
\* count a read that was confirmed for the vote of a candidate.
FinishRead ==
    /\ read # NoRead
    /\ IsMajority(Node, read.granted)
    /\ node[read.node].committed >= read.upto
    /\ stale' = (stale \/ (read.vote.committed /\ read.upto < read.floor))
    /\ read' = NoRead
    /\ UNCHANGED <<node, restarts>>

\* QuorumNotEnough: the requests that are left fail or time out.
FailRead ==
    /\ read # NoRead
    /\ read' = NoRead
    /\ UNCHANGED <<node, stale, restarts>>

\* A crash and restart.  Without save_committed the committed log id is that of
\* the state machine, which may not be persistent.  A leader leads again at
\* once (Engine::startup).
Restart(n) ==
    LET x == node[n]
    IN  /\ restarts < MaxRestarts
        /\ \E committed \in IF SavesCommitted THEN {x.committed} ELSE {0, x.committed} :
               LET y == [Pristine EXCEPT !.vote = x.vote, !.log = x.log, !.committed = committed]
               IN  node' = [node EXCEPT ![n] = IF IsLeader(y, n) THEN BecomeLeader(y, n) ELSE y]
        /\ read' = IF read.node = n THEN NoRead ELSE read
        /\ restarts' = restarts + 1
        /\ UNCHANGED stale

Next ==
    \/ \E n \in Node : Elect(n) \/ Write(n) \/ StartRead(n) \/ ConfirmRead(n) \/ Restart(n)
    \/ \E n, m \in Node, answered \in BOOLEAN : RequestVote(n, m, answered) \/ Replicate(n, m, answered)
    \/ FinishRead
    \/ FailRead

Spec == Init /\ [][Next]_vars

------------------------------------------------------------------------------
\* Log pointers stay inside the log, and a node has leader state when its vote
\* makes it the leader, or made it one before it was told to elect.
TypeOK ==
    /\ \A n \in Node :
           LET x == node[n]
           IN  /\ x.vote \in Vote /\ x.granted \subseteq Node
               /\ x.committed <= Len(x.log) /\ x.accepted <= Len(x.log)
               /\ IsLeader(x, n) => Leading(x) /\ x.lead.vote = x.vote
               /\ Leading(x) => x.vote.node = n
    /\ read.granted \subseteq Node
    /\ restarts \in 0..MaxRestarts

\* docs/protocol/read.md, "`read_log_id.index()` is at least as large as any
\* committed log": a call of ensure_linearizable that has returned let its
\* caller read everything that was committed, on any node, when it was made,
\* unless the leader that was asked had been told to elect.
ReadLinearizable == ~stale
==============================================================================
