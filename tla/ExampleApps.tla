----------------------------- MODULE ExampleApps ------------------------------
(***************************************************************************)
(* The key-value applications under examples/, between their callers and   *)
(* Raft: the services that answer a request with a call of the Raft        *)
(* handle, the loop of App::run that serves one request after the other,   *)
(* the router, and ExampleClient, whose callers share the address of the   *)
(* node they take for the leader.                                          *)
(*                                                                         *)
(* Raft is here as far as a request depends on it: who leads, who knows,   *)
(* which writes a node holds and has applied.  A write is the number of    *)
(* its call, a log the set of its writes; there is one change of leader.   *)
(***************************************************************************)
EXTENDS Naturals, SequencesExt, FiniteSets, TLC

CONSTANTS
    Server,         \* the nodes 1..3 of the cluster
    User,           \* callers, those of ExampleClient share one client
    Candidate,      \* the nodes that may take over from node 1
    App,            \* the applications
    Requests,       \* requests made, of those the applications serve
    MaxCalls,       \* calls of all callers
    MaxDrops        \* calls that time out at their callers

VARIABLES
    app,        \* the application
    node,       \* Raft on each node
    inbox,      \* requests at each node
    alive,      \* nodes whose App::run has not panicked
    target,     \* ExampleClient.leader
    user,       \* each caller
    calls,      \* calls made
    acked,      \* writes whose callers have an Ok
    drops

appVars == <<app, node, inbox, alive, target, user, calls, acked, drops>>

Router == {"network-v2", "opendal", "singlethreaded"}
WithClient == {"memstore", "rocksdb"}
OneAtATime == app \in Router
NoLeader == 0
Quorum(s) == 2 * Cardinality(s) > Cardinality(Server)
------------------------------------------------------------------------------
(* What each service calls for a request: "write" is client_write and the  *)
(* calls that end in it, "read" ensure_linearizable and then the state     *)
(* machine, "local" is answered from this node's state.                    *)
MemstoreApi == [write |-> "write", read |-> "local", linearizable_read |-> "read"]
RocksApi == [write |-> "write", read |-> "local", linearizable_read |-> "read"]
\* Variant of NetworkV2Api whose read is not linearizable.
NetworkV2ApiLocal == [write |-> "write", read |-> "local"]

NetworkV2Api == [write |-> "write", read |-> "read"]
OpendalApi == [write |-> "write", read |-> "read"]
SinglethreadedApi == [write |-> "write", read |-> "read"]
GrpcApp == [write |-> "write", read |-> "local"]

\* A cluster is initialized once: here it is, and init fails.
MemstoreManagement == [add_learner |-> "write", change_membership |-> "write", init |-> "init", metrics |-> "local"]
RocksManagement == [add_learner |-> "write", change_membership |-> "write", init |-> "init", metrics |-> "local"]
NetworkV2Management == [add_learner |-> "write", change_membership |-> "write", init |-> "init", metrics |-> "local"]
OpendalManagement == [add_learner |-> "write", change_membership |-> "write", init |-> "init", metrics |-> "local"]
SinglethreadedManagement == [add_learner |-> "write", change_membership |-> "write", init |-> "init", metrics |-> "local"]
GrpcManagement == [add_learner |-> "write", change_membership |-> "write", init |-> "init", metrics |-> "local"]

Service ==
    CASE app = "memstore" -> MemstoreApi @@ MemstoreManagement
      [] app = "rocksdb" -> RocksApi @@ RocksManagement
      [] app = "network-v2" -> NetworkV2Api @@ NetworkV2Management
      [] app = "opendal" -> OpendalApi @@ OpendalManagement
      [] app = "singlethreaded" -> SinglethreadedApi @@ SinglethreadedManagement
      [] app = "grpc" -> GrpcApp @@ GrpcManagement

\* The calls of ExampleClient that go through send_rpc_to_leader, the others
\* are made once.
MemstoreRetried == {"write", "add_learner", "change_membership"}
RocksRetried == {"write", "add_learner", "change_membership"}

Retried == IF app = "memstore" THEN MemstoreRetried ELSE IF app = "rocksdb" THEN RocksRetried ELSE {}

\* The requests that promise a linearizable read
Linearizable == IF OneAtATime THEN {"read"} ELSE {"linearizable_read"}

\* What a caller is told of the error of another node.
Told(l) == IF app \in WithClient \cup {"singlethreaded"} THEN l ELSE NoLeader
------------------------------------------------------------------------------
Idle ==
    [st |-> "idle", kind |-> "none", retried |-> FALSE, id |-> 0, tries |-> 0,
     ans |-> "none", leader |-> NoLeader, value |-> {}, linear |-> FALSE, floor |-> {}, settled |-> FALSE]

\* Every node follows node 1; any node may have been the last to be asked.
Init ==
    /\ app \in App
    /\ node = [n \in Server |->
           [term |-> 1, leader |-> 1, log |-> {}, applied |-> {}, noop |-> {}]]
    /\ inbox = [n \in Server |-> <<>>]
    /\ alive = Server
    /\ target \in IF app \in WithClient THEN Server ELSE {NoLeader}
    /\ user = [c \in User |-> Idle]
    /\ calls = 0 /\ acked = {} /\ drops = 0

Leads(n) == node[n].leader = n

\* Every node knows the leader of the last term.
Settled == \E l \in Server : \A n \in Server : node[n].leader = l /\ node[n].term = node[l].term

CallRequest(c, u) == [user |-> c, id |-> u.id, kind |-> u.kind, held |-> FALSE, conf |-> {}, upto |-> {}]
------------------------------------------------------------------------------
(* The caller's side *)

Begin(c, op) ==
    /\ user[c].st = "idle" /\ calls < MaxCalls /\ op \in Requests
    /\ calls' = calls + 1
    /\ user' = [user EXCEPT ![c] =
           [Idle EXCEPT !.st = "send", !.kind = Service[op], !.retried = op \in Retried, !.id = calls + 1,
                        !.linear = op \in Linearizable, !.floor = IF op \in Linearizable THEN acked ELSE {},
                        !.settled = op \in Retried /\ Settled]]
    /\ UNCHANGED <<app, node, inbox, alive, target, acked, drops>>

SendTo(c, ns) ==
    /\ user[c].st = "send"
    /\ \E n \in ns :
           /\ user' = [user EXCEPT ![c].st = "sent", ![c].tries = @ + 1]
           /\ inbox' = [inbox EXCEPT ![n] = Append(@, CallRequest(c, user[c]))]
    /\ UNCHANGED <<app, node, alive, target, calls, acked, drops>>

\* do_send_rpc_to_leader of ExampleClient up to the answer: the address is read
\* anew for every attempt.
MemstoreSend(c) == app = "memstore" /\ SendTo(c, {target})
RocksSend(c) == app = "rocksdb" /\ SendTo(c, {target})

\* Router::send to a node of the caller's choice, and a gRPC client
NetworkV2Send(c) == app = "network-v2" /\ SendTo(c, alive)
OpendalSend(c) == app = "opendal" /\ SendTo(c, alive)
SinglethreadedSend(c) == app = "singlethreaded" /\ SendTo(c, alive)
GrpcSend(c) == app = "grpc" /\ SendTo(c, alive)

SendCall(c) ==
    \/ MemstoreSend(c) \/ RocksSend(c) \/ GrpcSend(c)
    \/ NetworkV2Send(c) \/ OpendalSend(c) \/ SinglethreadedSend(c)

\* raft-kv-memstore gives up after three seconds.
TimeOutCall(c) ==
    /\ app = "memstore" /\ user[c].st = "sent" /\ drops < MaxDrops
    /\ user' = [user EXCEPT ![c] = Idle]
    /\ drops' = drops + 1
    /\ UNCHANGED <<app, node, inbox, alive, target, calls, acked>>

Attempts == 3

\* Variant of MemstoreAgain that gives up after the second attempt.
MemstoreAgainOnce(u) == u.leader # NoLeader /\ u.tries + 1 < Attempts

\* send_rpc_to_leader asks again only if it was told of a leader.
MemstoreAgain(u) == u.leader # NoLeader /\ u.tries < Attempts
RocksAgain(u) == u.leader # NoLeader /\ u.tries < Attempts

Again(u) == u.retried /\ IF app = "memstore" THEN MemstoreAgain(u) ELSE RocksAgain(u)

\* send_rpc_to_leader after an answer
RecvAnswer(c) ==
    LET u == user[c]
    IN  /\ u.st = "answered"
        /\ target' = IF u.retried /\ u.leader # NoLeader THEN u.leader ELSE target
        /\ user' = [user EXCEPT ![c] =
               IF u.ans = "Err" /\ Again(u) THEN [u EXCEPT !.st = "send", !.ans = "none", !.leader = NoLeader] ELSE Idle]
        /\ acked' = IF u.ans = "Ok" /\ u.kind = "write" THEN acked \cup {u.id} ELSE acked
        /\ UNCHANGED <<app, node, inbox, alive, calls, drops>>
------------------------------------------------------------------------------
(* The service's side *)

Waits(r, u) == u.st = "sent" /\ u.id = r.id

\* The answer to request i of n.  App::run unwraps the result of sending it,
\* and ends if the caller has gone.
Answer(n, i, ans, leader, value) ==
    LET r == inbox[n][i]
        c == r.user
    IN  /\ inbox' = [inbox EXCEPT ![n] = RemoveAt(@, i)]
        /\ user' = IF ~Waits(r, user[c]) THEN user
                   ELSE [user EXCEPT ![c].st = "answered", ![c].ans = ans, ![c].leader = Told(leader),
                             ![c].value = IF user[c].linear THEN value ELSE {}]
        /\ alive' = IF OneAtATime /\ ~Waits(r, user[c]) THEN alive \ {n} ELSE alive

Hold(n, i, r) == inbox' = [inbox EXCEPT ![n][i] = r] /\ UNCHANGED <<user, alive>>

\* App::run takes the next request when it has answered the last.
NetworkV2Run(n) == DOMAIN inbox[n] \cap {1}
OpendalRun(n) == DOMAIN inbox[n] \cap {1}
SinglethreadedRun(n) == DOMAIN inbox[n] \cap {1}

\* The other services have a task for each.
Open(n) ==
    CASE n \notin alive -> {}
      [] n \in alive /\ app = "network-v2" -> NetworkV2Run(n)
      [] n \in alive /\ app = "opendal" -> OpendalRun(n)
      [] n \in alive /\ app = "singlethreaded" -> SinglethreadedRun(n)
      [] n \in alive /\ ~OneAtATime -> DOMAIN inbox[n]

\* The first step of a request: client_write and ensure_linearizable turn it
\* down on a node that does not lead.
ServeCall(n, i) ==
    LET r == inbox[n][i]
        x == node[n]
    IN  /\ i \in Open(n) /\ ~r.held
        /\ CASE r.kind = "local" -> Answer(n, i, "Ok", NoLeader, x.applied)
             [] r.kind = "init" -> Answer(n, i, "Err", NoLeader, {})
             [] r.kind \in {"write", "read"} /\ ~Leads(n) -> Answer(n, i, "Err", x.leader, {})
             [] r.kind = "write" /\ Leads(n) -> Hold(n, i, [r EXCEPT !.held = TRUE])
             [] r.kind = "read" /\ Leads(n) ->
                    Hold(n, i, [r EXCEPT !.held = TRUE, !.conf = {n}, !.upto = x.noop \cup x.applied])
        /\ node' = IF r.kind = "write" /\ Leads(n) THEN [node EXCEPT ![n].log = @ \cup {r.id}] ELSE node
        /\ UNCHANGED <<app, target, calls, acked, drops>>

\* Variant of CutOff that forgets the callers of truncated logs.
CutOffNever(x, r) == FALSE

\* Truncating the log answers the callers whose entries are cut off it.
CutOff(x, r) == r.id \notin x.log

FinishWrite(n, i) ==
    LET r == inbox[n][i]
        x == node[n]
    IN  /\ i \in Open(n) /\ r.held /\ r.kind = "write"
        /\ \/ r.id \in x.applied /\ Answer(n, i, "Ok", NoLeader, {})
           \/ CutOff(x, r) /\ Answer(n, i, "Err", x.leader, {})
        /\ UNCHANGED <<app, node, target, calls, acked, drops>>

\* What the service reads after ensure_linearizable.
FinishRead(n, i) ==
    LET r == inbox[n][i]
    IN  /\ i \in Open(n) /\ r.held /\ r.kind = "read"
        /\ Quorum(r.conf) /\ r.upto \subseteq node[n].applied
        /\ Answer(n, i, "Ok", NoLeader, node[n].applied)
        /\ UNCHANGED <<app, node, target, calls, acked, drops>>

\* QuorumNotEnough: the append-entries calls of the read time out, or are answered
\* with the vote of the leader that has come since.
FailRead(n, i) ==
    LET r == inbox[n][i]
    IN  /\ i \in Open(n) /\ r.held /\ r.kind = "read"
        /\ Answer(n, i, "Err", NoLeader, {})
        /\ UNCHANGED <<app, node, target, calls, acked, drops>>
------------------------------------------------------------------------------
(* Raft below the services: append-entries and vote requests are served by *)
(* the same inbox as the calls.                                            *)

\* A node with a request in progress in App::run serves no other.
Free(m) == m \in alive /\ (OneAtATime => inbox[m] = <<>>)

\* x hears of the term t and its leader l.
Hear(x, t, l) == IF x.term > t THEN x ELSE [x EXCEPT !.term = t, !.leader = l]

\* The append-entries call of a read, with its answer.
ConfirmRead(n, i, m) ==
    LET r == inbox[n][i]
        higher == node[m].term > node[n].term
    IN  /\ i \in Open(n) /\ r.held /\ r.kind = "read"
        /\ m \notin r.conf /\ Leads(n) /\ Free(m)
        /\ node' = IF higher THEN [node EXCEPT ![n] = Hear(@, node[m].term, node[m].leader)]
                   ELSE [node EXCEPT ![m] = Hear(@, node[n].term, n)]
        /\ IF higher THEN Answer(n, i, "Err", NoLeader, {}) ELSE Hold(n, i, [r EXCEPT !.conf = @ \cup {m}])
        /\ UNCHANGED <<app, target, calls, acked, drops>>

UpToDate(l, m) ==
    /\ node[m].term = node[l].term /\ node[m].leader = l
    /\ node[m].log = node[l].log /\ node[l].applied \subseteq node[m].applied
    /\ node[l].applied = node[l].log

\* m after "/raft/append" with the whole log of l, if it does not know better
Follow(m, l) ==
    [Hear(node[m], node[l].term, l) EXCEPT !.log = node[l].log, !.applied = @ \cup (node[l].applied \cap node[l].log)]

\* The writes a quorum holds, if m holds the whole log of l: what l hears of.
Committed(l, m) ==
    LET with(w) == {s \in alive : node[s].term = node[l].term /\ node[s].leader = l /\ w \in node[s].log}
    IN  {w \in node[l].log : Quorum({l, m} \cup with(w))}

\* "/raft/append" and its answer
AppendEntries(l, m) ==
    /\ Leads(l) /\ m # l /\ Free(m) /\ ~UpToDate(l, m)
    /\ node' = IF node[m].term > node[l].term
               THEN [node EXCEPT ![l] = Hear(@, node[m].term, node[m].leader)]
               ELSE [node EXCEPT ![m] = Follow(m, l), ![l].applied = @ \cup Committed(l, m)]
    /\ UNCHANGED <<app, inbox, alive, target, user, calls, acked, drops>>

\* "/raft/append" served by App::run after the RPC timeout of the leader has
\* dropped the receiver of the answer
AppendEntriesLate(l, m) ==
    /\ OneAtATime /\ Leads(l) /\ m # l /\ Free(m) /\ ~UpToDate(l, m)
    /\ drops < MaxDrops /\ drops' = drops + 1
    /\ node' = IF node[m].term > node[l].term THEN node ELSE [node EXCEPT ![m] = Follow(m, l)]
    /\ alive' = alive \ {m}
    /\ UNCHANGED <<app, inbox, target, user, calls, acked>>

\* n is elected with the vote of m.
Elect(n, m) ==
    /\ \A s \in Server : node[s].term = 1
    /\ n \in Candidate /\ ~Leads(n) /\ m # n /\ Free(m) /\ node[m].log \subseteq node[n].log
    /\ node' = [node EXCEPT
           ![n] = [@ EXCEPT !.term = 2, !.leader = n, !.noop = node[n].log],
           ![m] = [@ EXCEPT !.term = 2, !.leader = NoLeader]]
    /\ user' = [c \in User |-> [user[c] EXCEPT !.settled = FALSE]]
    /\ UNCHANGED <<app, inbox, alive, target, calls, acked, drops>>
------------------------------------------------------------------------------
UserStep(c) == SendCall(c) \/ RecvAnswer(c)

ServerStep(n) ==
    \E i \in DOMAIN inbox[n] :
        \/ ServeCall(n, i) \/ FinishWrite(n, i) \/ FinishRead(n, i) \/ FailRead(n, i)
        \/ \E m \in Server : ConfirmRead(n, i, m)

\* What the tasks do by themselves: they run on.
Step ==
    \/ \E c \in User : UserStep(c)
    \/ \E n \in Server : ServerStep(n)
    \/ \E l, m \in Server : AppendEntries(l, m)

Next ==
    \/ Step
    \/ \E c \in User : TimeOutCall(c) \/ \E op \in DOMAIN Service : Begin(c, op)
    \/ \E n, m \in Server : AppendEntriesLate(n, m) \/ Elect(n, m)

Spec == Init /\ [][Next]_appVars
------------------------------------------------------------------------------
TypeOK ==
    /\ app \in App /\ target \in Server \cup {NoLeader} /\ alive \subseteq Server
    /\ \A n \in Server : node[n].applied \subseteq node[n].log /\ node[n].log \subseteq 1..calls
    /\ \A c \in User : user[c].tries \in 0..Attempts

(* A write that is answered Ok is on every node that may be elected, and a *)
(* linearizable read shows every write answered Ok before it began.        *)
ReadSeesAcked ==
    \A c \in User :
        user[c].st = "answered" /\ user[c].ans = "Ok" =>
            /\ user[c].linear => user[c].floor \subseteq user[c].value
            /\ user[c].kind = "write" => Quorum({n \in Server : user[c].id \in node[n].log})

(* A write of ExampleClient that begins when every node knows the leader,  *)
(* and while it stays, does not fail for want of the leader, though the    *)
(* other caller may write an older leader into the address they share.     *)
LeaderFound ==
    \A c \in User :
        LET u == user[c]
        IN  u.st = "answered" /\ u.ans = "Err" /\ u.kind = "write" /\ u.retried /\ u.settled => Again(u)

\* App::run of n has ended, as a caller did not wait for its answer, or hangs in
\* a write made on n before it was deposed: the append-entries of the new leader,
\* which would cut the write off, wait behind it.
Wedged(n) ==
    \/ n \notin alive
    \/ /\ OneAtATime /\ inbox[n] # <<>> /\ inbox[n][1].held /\ inbox[n][1].kind = "write"
       /\ ~Leads(n) \/ \E m \in Server : node[m].term > node[n].term

(* No request is left waiting when nothing more happens by itself, except  *)
(* at an App::run that has ended or hangs, and at the others if there is   *)
(* no quorum of them.                                                      *)
NoCallStuck ==
    ~ENABLED Step =>
        \A c \in User :
            \/ user[c].st = "idle"
            \/ ~Quorum({n \in Server : ~Wedged(n)})
            \/ \E n \in Server :
                   Wedged(n) /\ \E i \in DOMAIN inbox[n] : Waits(inbox[n][i], user[c])
==============================================================================
