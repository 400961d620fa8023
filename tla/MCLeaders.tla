------------------------------ MODULE MCLeaders ------------------------------
(***************************************************************************)
(* Instances for TLC of the specifications of who leads and what a leader  *)
(* knows: Leadership, LeaderLease, LinearRead, ProgressCalls for the value *)
(* a quorum has acknowledged, and ExampleApps for those who look for a     *)
(* leader.  Each behaviour is one of one of them, the others stay where    *)
(* they start.                                                             *)
(***************************************************************************)
EXTENDS Leadership, LeaderLease

CONSTANTS
    ReadElectable, SavesCommitted, MaxLog, MaxRestarts,
    MaxValue,
    Server, User, Candidate, App, Requests, MaxCalls, MaxDrops

VARIABLES
    part,                                        \* the specification that moves
    rnode, read, stale, restarts,                \* of LinearRead
    prog,                                        \* of ProgressCalls
    app, anode, inbox, alive, target, user, calls, acked, drops \* of ExampleApps

R == INSTANCE LinearRead WITH node <- rnode, Electable <- ReadElectable
X == INSTANCE ExampleApps WITH node <- anode

NatLt(a, b) == a < b
NatValues == 0..MaxValue

\* Uniform configurations of up to three voters and the joint configurations of
\* up to two voters: in these at most one voter is ever above granted.
SmallConfigs == {<<{1}>>, <<{1}, {1, 2}>>, <<{1, 2}>>, <<{1, 2, 3}>>}
SmallLearners == {{}, {4}, {2, 3}}

P == INSTANCE ProgressCalls WITH Lt <- NatLt, Bottom <- 0, Values <- NatValues,
         Configs <- SmallConfigs, LearnerSets <- SmallLearners

readVars == <<rnode, read, stale, restarts>>
appVars == <<app, anode, inbox, alive, target, user, calls, acked, drops>>

ThreeNodes == 1..3
OneAfterTheOther == <<{1}, {2}>>
OneThenAll == <<{1}, {1, 2, 3}>>

LeadersInit ==
    /\ part \in {"leadership", "lease", "read", "progress", "app"}
    /\ Init /\ LeaseInit /\ R!Init /\ P!Init /\ X!Init
    /\ part = "progress" \/ prog = P!NewProgress(<<{1}>>, {})
    /\ part = "app" \/ (app = "memstore" /\ target = 1)

\* Users differ only in their names: let them start in their order.
InOrder == \A c, d \in User : c < d /\ user'[c].st = "idle" /\ calls' = 1 => user'[d].st = "idle"

\* What a lease is worth is not asked after it was ignored: let time stop then.
UntilWaived == waived => ~Tick

LeadersNext ==
    /\ \/ part = "leadership" /\ Next /\ UNCHANGED <<leaseVars, readVars, prog, appVars>>
       \/ part = "lease" /\ LeaseNext /\ UntilWaived /\ UNCHANGED <<vars, readVars, prog, appVars>>
       \/ part = "read" /\ R!Next /\ UNCHANGED <<vars, leaseVars, prog, appVars>>
       \/ part = "progress" /\ P!Next /\ UNCHANGED <<vars, leaseVars, readVars, appVars>>
       \/ part = "app" /\ X!Next /\ InOrder /\ UNCHANGED <<vars, leaseVars, readVars, prog>>
    /\ UNCHANGED part

LeadersSpec == LeadersInit /\ [][LeadersNext]_<<part, vars, leaseVars, readVars, prog, appVars>>

\* R!ReadLinearizable: a confirmed read sees everything that was committed when
\* it was asked for; log pointers of every node stay inside its log.
ReadLinearizable == part = "read" => R!TypeOK /\ R!ReadLinearizable

\* P!GrantedIsGreatest: the value a VecProgress grants is the greatest that a
\* quorum holds; it has each node once, voters before learners.
GrantedIsGreatest == part = "progress" => P!TypeOK /\ P!GrantedIsGreatest

\* X!ReadSeesAcked: a linearizable read shows what was acknowledged before it.
ReadSeesAcked == part = "app" => X!TypeOK /\ X!ReadSeesAcked

\* X!LeaderFound: a client that retries finds the leader that all nodes know.
LeaderFound == part = "app" => X!LeaderFound

\* X!NoCallStuck: the applications leave no request without an answer.
NoCallStuck == part = "app" => X!NoCallStuck
==============================================================================
