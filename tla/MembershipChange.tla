-------------------------- MODULE MembershipChange ---------------------------
(***************************************************************************)
(* Membership changes in a cluster: elections, replication and commit by   *)
(* the quorums of whatever membership each node has in effect, while       *)
(* memberships are proposed, truncated, committed, recovered from storage  *)
(* and carried by snapshots.                                               *)
(*                                                                         *)
(* Engine and Raft have the details of elections and replication.  Here a  *)
(* call and its answer are one step, an answer may be lost, and the        *)
(* leader's own writes are flushed at once.  A log keeps what was purged,  *)
(* up to purged, as the snapshot that replaces it.                         *)
(***************************************************************************)
EXTENDS Membership, FiniteSetsExt

CONSTANTS
    FirstVoters,      \* the voters the cluster is initialized with
    Changes,          \* the changes that are asked for, a subset of ChangeMembers
    Retain,           \* the values of retain they are asked for with
    Electable,        \* the nodes whose election timer may expire
    Writable,         \* the nodes that clients write to
    MaxTerm, MaxLog,
    MaxDisruptions    \* how many times a node restarts or a leader purges its log

ASSUME ChangesAssumption == Changes \subseteq ChangeMembers
ASSUME VotersAssumption == FirstVoters \subseteq Node /\ FirstVoters # {}

VARIABLES
    node,     \* the state of each node
    chosen,   \* every <<index, entry>> that any node has committed, for the properties
    early,    \* whether a leader was asked for a change before its blank log was committed
    disruptions \* the number of restarts and purges

vars == <<node, chosen, early, disruptions>>

\* An entry that is not a membership has NoMembers.
Entry == [term : Nat, node : Node \cup {NoNode}, members : Members]

\* The progress of a node without leader state.
NotLeading == <<>>

IdAt(l, i) == IF i = 0 THEN NoLogId ELSE NewLogId(l[i], i)

LastId(l) == IdAt(l, Len(l))

StoredAt(l, i) == Store(IdAt(l, i), IF i = 0 THEN NoMembers ELSE l[i].members)

\* The indexes of the memberships in from..upto, and the last of them.
MembershipsIn(l, from, upto) == {i \in from..upto : l[i].members # NoMembers}

LastIn(l, from, upto) == Max(MembershipsIn(l, from, upto) \cup {0})

Effective(x) == x.membership.effective.members

IsLeading(x) == x.matching # NotLeading

------------------------------------------------------------------------------
\* RaftState::update_committed
CommitUpto(x, i) ==
    IF i <= x.committed THEN x
    ELSE [x EXCEPT !.committed = i,
                   !.membership = CommitMembership(@, IdAt(x.log, i))]

\* Variant: the old voters of a joint config are not asked.
GrantedByNewConfig(x, matching) ==
    Max({i \in 0..Len(x.log) :
            IsMajority(LastConfig(Effective(x)), {t \in DOMAIN matching : matching[t] >= i})})

\* What VecProgress grants: the greatest index that a quorum holds.
Granted(x, matching) ==
    Max({i \in 0..Len(x.log) :
            IsQuorum(Effective(x).configs, {t \in DOMAIN matching : matching[t] >= i})})

\* ReplicationHandler::update_matching and try_commit_quorum_accepted: only logs
\* of this leader are committed by counting.
UpdateMatching(x, t, i) ==
    LET matching == [x.matching EXCEPT ![t] = Max({@, i})]
        granted == Granted(x, matching)
        y == [x EXCEPT !.matching = matching]
    IN  IF granted > 0 /\ IsSameLeader(x.vote, IdAt(x.log, granted)) THEN CommitUpto(y, granted) ELSE y

\* ReplicationHandler::update_local_progress: the leader may have left.
UpdateLocalProgress(x, n) ==
    IF n \in DOMAIN x.matching THEN UpdateMatching(x, n, Len(x.log)) ELSE x

\* ReplicationHandler::rebuild_progresses
RebuildProgresses(x) ==
    [x EXCEPT !.matching = [t \in Effective(x).nodes |-> IF t \in DOMAIN @ THEN @[t] ELSE 0]]

\* ReplicationHandler::append_membership of the last log
LeaderAppendMembership(x) ==
    RebuildProgresses([x EXCEPT !.membership = AppendMembership(@, StoredAt(x.log, Len(x.log)))])

\* LeaderHandler::leader_append_entries with one entry; the local write is
\* flushed at once.
LeaderAppendEntry(x, n, members) ==
    LET lid == CommittedLeaderId(x.vote)
        y == [x EXCEPT !.log = Append(@, [term |-> lid.term, node |-> lid.node, members |-> members])]
    IN  UpdateLocalProgress(IF members = NoMembers THEN y ELSE LeaderAppendMembership(y), n)

\* A new Leader, by VoteHandler::become_leader or EstablishHandler::establish:
\* it proposes a blank log unless the last log is its own.
BecomeLeader(x, n) ==
    LET y == [x EXCEPT !.matching = [t \in Effective(x).nodes |-> 0]]
    IN  IF y.log # <<>> /\ IsSameLeader(y.vote, LastId(y.log))
        THEN UpdateLocalProgress(y, n)
        ELSE LeaderAppendEntry(y, n, NoMembers)

\* VoteHandler::update_vote for the vote of another node: become_following
Follow(x, v) == [x EXCEPT !.vote = v, !.matching = NotLeading]

\* FollowingHandler::truncate_logs
TruncateLogs(x, since) ==
    IF since > Len(x.log) THEN x
    ELSE [x EXCEPT !.log = SubSeq(@, 1, since - 1),
                   !.membership = TruncateMembership(@, since)]

\* FollowingHandler::last_two_memberships: their indexes, 0 if there is none
LastTwo(l, from, upto) ==
    LET last == LastIn(l, from, upto)
    IN  <<LastIn(l, from, last - 1), last>>

\* FollowingHandler::append_membership, for the logs after i
FollowerAppendMembership(x, i) ==
    LET two == LastTwo(x.log, i + 1, Len(x.log))
        AppendAt(ms, k) == IF k = 0 THEN ms ELSE AppendMembership(ms, StoredAt(x.log, k))
    IN  [x EXCEPT !.membership = AppendAt(AppendAt(@, two[1]), two[2])]

\* FollowingHandler::do_append_entries
DoAppendEntries(x, entries) ==
    FollowerAppendMembership([x EXCEPT !.log = @ \o entries], Len(x.log))

\* RaftState::has_log_id for the log id at p of the leader's log l
HasLogId(x, l, p) == p <= x.committed \/ (p <= Len(x.log) /\ IdAt(x.log, p) = IdAt(l, p))

\* FollowingHandler::append_entries of l[p+1..i] and commit_entries
FollowerAppend(x, l, p, i, leaderCommitted) ==
    LET conflicts == {j \in (p + 1)..i : j > Len(x.log) \/ IdAt(x.log, j) # IdAt(l, j)}
        since == Min(conflicts)
        y == IF conflicts = {} THEN x
             ELSE DoAppendEntries(TruncateLogs(x, since), SubSeq(l, since, i))
    IN  CommitUpto(y, Min({i, leaderCommitted}))

\* StorageHelper::get_membership: the last two memberships after what is
\* applied, and the state machine's.
GetMembership(l, applied) ==
    LET two == LastTwo(l, applied + 1, Len(l))
        StoredOrApplied(k) == StoredAt(l, IF k = 0 THEN LastIn(l, 1, applied) ELSE k)
    IN  NewMembershipState(StoredOrApplied(two[1]), StoredOrApplied(two[2]))

------------------------------------------------------------------------------
\* The nodes that are members from the start are initialized with the same
\* membership entry (Engine::initialize); the others are pristine.
InitialEntry ==
    [term |-> 0, node |-> NoNode, members |-> [configs |-> <<FirstVoters>>, nodes |-> FirstVoters]]

Pristine ==
    [vote |-> DefaultVote, log |-> <<>>, committed |-> 0, membership |-> NoMembershipState,
     matching |-> NotLeading, purged |-> 0]

Initialized == DoAppendEntries([Pristine EXCEPT !.vote = ToCommitted(DefaultVote)], <<InitialEntry>>)

Init ==
    /\ node = [n \in Node |-> IF n \in FirstVoters THEN Initialized ELSE Pristine]
    /\ chosen = {}
    /\ early = FALSE
    /\ disruptions = 0

CommittedOf(x) == {<<i, x.log[i]>> : i \in 1..x.committed}

Update(f) ==
    /\ node' = f
    /\ chosen' = chosen \cup UNION {CommittedOf(node'[n]) : n \in Node}

\* RaftCore::handle_tick_election, Engine::elect, and the answers of the voters
\* that grant the vote (Engine::handle_vote_req and handle_vote_resp), who are a
\* quorum of the candidate's effective membership.
Elect(n, granters) ==
    LET x == node[n]
        v == NewVote(x.vote.term + 1, n)
    IN  /\ n \in Electable /\ ~IsLeading(x) /\ IsVoter(Effective(x), n)
        /\ x.vote.term < MaxTerm /\ Len(x.log) < MaxLog
        /\ granters \subseteq VoterIds(Effective(x)) \ {n}
        /\ IsQuorum(Effective(x).configs, granters \cup {n})
        /\ \A q \in granters : /\ VoteLt(node[q].vote, v)
                               /\ LogIdLeq(LastId(node[q].log), LastId(x.log))
        /\ Update([m \in Node |->
                    CASE m = n -> BecomeLeader([x EXCEPT !.vote = ToCommitted(v)], n)
                      [] m \in granters -> Follow(node[m], v)
                      [] OTHER -> node[m]])
        /\ UNCHANGED <<early, disruptions>>

\* RaftCore::change_membership, ChangeHandler::apply and write_entry
ChangeMembership(n, change, retain) ==
    LET x == node[n]
        m == Change(Effective(x), change, retain)
    IN  /\ IsLeading(x) /\ Len(x.log) < MaxLog
        /\ EnsureCommitted(x.membership)
        /\ IsValid(m)
        /\ Update([node EXCEPT ![n] = LeaderAppendEntry(x, n, m)])
        /\ early' = (early \/ ~IsSameLeader(x.vote, IdAt(x.log, x.committed)))
        /\ UNCHANGED disruptions

\* RaftCore::write_entry for a client
Write(n) ==
    LET x == node[n]
    IN  /\ n \in Writable /\ IsLeading(x) /\ Len(x.log) < MaxLog
        /\ Update([node EXCEPT ![n] = LeaderAppendEntry(x, n, NoMembers)])
        /\ UNCHANGED <<early, disruptions>>

\* A leader n calls m with the logs up to i, after one that m has, and m takes
\* them (Engine::handle_append_entries).  Where the call starts makes no
\* difference, so it starts at the last log they share; one that ends before
\* that log brings no log and is left out, and so is one that changes neither
\* of them.  The answer is lost unless answered.
AppendEntries(n, m, i, answered) ==
    LET x == node[n]
        y == node[m]
        shared == {p \in x.purged..Len(x.log) : HasLogId(y, x.log, p)}
        z == FollowerAppend(Follow(y, x.vote), x.log, Max(shared), i, x.committed)
    IN  /\ IsLeading(x) /\ m # n /\ m \in DOMAIN x.matching
        /\ answered => x.matching[m] < i
        /\ VoteLeq(y.vote, x.vote)
        /\ shared # {} /\ i \in Max(shared)..Len(x.log)
        /\ ~answered => z # y
        /\ Update([node EXCEPT ![m] = z,
                               ![n] = IF answered THEN UpdateMatching(x, m, i) ELSE x])
        /\ UNCHANGED <<early, disruptions>>

\* The same call, but m does not have the log before: ensure_log_consecutive
\* truncates.  What the leader does with the conflict is in Engine.
AppendConflict(n, m, p) ==
    LET x == node[n]
        y == node[m]
        z == TruncateLogs(Follow(y, x.vote), p)
    IN  /\ IsLeading(x) /\ m # n /\ m \in DOMAIN x.matching
        /\ x.purged <= p /\ p <= Len(x.log)
        /\ VoteLeq(y.vote, x.vote)
        /\ ~HasLogId(y, x.log, p)
        /\ z # y
        /\ Update([node EXCEPT ![m] = z])
        /\ UNCHANGED <<early, disruptions>>

\* A leader has built a snapshot and purges the logs it covers.
PurgeLog(n) ==
    LET x == node[n]
    IN  /\ IsLeading(x) /\ x.purged < x.committed
        /\ disruptions < MaxDisruptions
        /\ Update([node EXCEPT ![n].purged = x.committed])
        /\ disruptions' = disruptions + 1
        /\ UNCHANGED early

\* Engine::handle_install_full_snapshot with the leader's snapshot, for a target
\* that needs logs that are purged.  FollowingHandler::install_full_snapshot
\* truncates if the log at the end of the snapshot conflicts, and not if there
\* is none.
InstallSnapshot(n, m) ==
    LET x == node[n]
        k == x.purged
        y == Follow(node[m], x.vote)
        z == IF k <= Len(y.log) /\ IdAt(y.log, k) # IdAt(x.log, k)
             THEN TruncateLogs(y, y.committed + 1)
             ELSE y
        c == StoredAt(x.log, LastIn(x.log, 1, k))
    IN  /\ IsLeading(x) /\ m # n /\ m \in DOMAIN x.matching
        /\ x.matching[m] < k
        /\ VoteLeq(node[m].vote, x.vote)
        /\ Update([node EXCEPT
                    ![m] = IF k <= y.committed THEN y
                           ELSE [z EXCEPT !.log = IF k <= Len(@) THEN @ ELSE SubSeq(x.log, 1, k),
                                          !.committed = k,
                                          !.membership = UpdateCommittedMembership(@, c),
                                          !.purged = k],
                    ![n] = UpdateMatching(x, m, k)])
        /\ UNCHANGED <<early, disruptions>>

\* RaftCore, on a tick: Engine::leader_step_down, once the membership that
\* removes the leader is applied.
LeaderStepDown(n) ==
    LET x == node[n]
    IN  /\ IsLeading(x)
        /\ x.membership.effective.id.index <= x.committed
        /\ ~Contains(Effective(x), n)
        /\ Update([node EXCEPT ![n].matching = NotLeading])
        /\ UNCHANGED <<early, disruptions>>

\* A node restarts with the logs it has applied, which may be fewer than it has
\* committed.  It leads again if its vote says so (Engine::startup).
Restart(n, applied) ==
    LET x == node[n]
        y == [x EXCEPT !.committed = applied, !.matching = NotLeading,
                       !.membership = GetMembership(x.log, applied)]
    IN  /\ disruptions < MaxDisruptions
        /\ applied \in {x.purged, x.committed}
        /\ Update([node EXCEPT ![n] =
                    IF y.vote.committed /\ y.vote.node = n /\ Contains(Effective(y), n)
                    THEN BecomeLeader(y, n)
                    ELSE y])
        /\ disruptions' = disruptions + 1
        /\ UNCHANGED early

Next ==
    \E n \in Node :
        \/ \E granters \in SUBSET Node : Elect(n, granters)
        \/ \E change \in Changes, retain \in Retain : ChangeMembership(n, change, retain)
        \/ Write(n)
        \/ \E m \in Node, i \in 0..MaxLog, answered \in BOOLEAN : AppendEntries(n, m, i, answered)
        \/ \E m \in Node, p \in 1..MaxLog : AppendConflict(n, m, p)
        \/ PurgeLog(n)
        \/ \E m \in Node : InstallSnapshot(n, m)
        \/ LeaderStepDown(n)
        \/ \E applied \in 0..MaxLog : Restart(n, applied)

Spec == Init /\ [][Next]_vars

------------------------------------------------------------------------------
\* Types; a leader tracks the progress of exactly the nodes of its effective
\* membership (rebuild_progresses), and the committed membership is not after
\* the effective one (Validate of MembershipState).
TypeOK ==
    /\ \A n \in Node :
        LET x == node[n]
        IN  /\ x.vote \in Vote
            /\ \A i \in DOMAIN x.log : x.log[i] \in Entry
            /\ x.committed \in 0..Len(x.log) /\ x.purged \in 0..x.committed
            /\ x.membership \in MembershipState
            /\ x.membership.committed.id.index <= x.membership.effective.id.index
            /\ LogIdLeq(x.membership.committed.id, x.membership.effective.id)
            /\ IsLeading(x) => DOMAIN x.matching = Effective(x).nodes
    /\ disruptions \in 0..MaxDisruptions

\* Whatever memberships are in effect where, no two nodes ever commit different
\* entries at the same index, as long as every leader was asked for changes
\* only once its blank log was committed: ensure_committed looks at the
\* memberships alone, and does not enforce the third constraint of
\* docs/data/extended-membership.md ("initial-log").
ChosenUnique == early \/ \A a, b \in chosen : a[1] = b[1] => a = b

\* The membership in effect is of an uncommitted log that a snapshot has
\* replaced: install_full_snapshot truncates only if there is a log at the
\* snapshot's index, and update_committed keeps what has a later index than the
\* snapshot's membership.
LeftBySnapshot(x) ==
    LET id == x.membership.effective.id
    IN  id.index \in 1..x.purged /\ id # IdAt(x.log, id.index)

\* The membership in effect is the last one in the log of the node
\* (docs/data/effective-membership.md: "resulting in the latest log being the
\* effective membership"), also after truncation and a restart, and after a
\* snapshot unless that left a conflicting one in place.  The membership a node
\* reverts to on truncation is one that was committed, although
\* append_membership takes it for committed without having seen that
\* (MembershipState: "On either leader or follower, the second last one must
\* have been committed").
EffectiveIsLast ==
    TypeOK /\ \A n \in Node :
        LET x == node[n]
            c == x.membership.committed
        IN  /\ \/ x.membership.effective = StoredAt(x.log, LastIn(x.log, 1, Len(x.log)))
               \/ LeftBySnapshot(x)
            /\ c.id.index = 0 \/ \E e \in chosen : /\ e[1] = c.id.index
                                                    /\ Store(NewLogId(e[2], e[1]), e[2].members) = c

\* Every quorum of a membership intersects every quorum of one that
\* Membership::change makes of it, for the changes that are asked for
\* (docs/data/extended-membership.md: old-new-intersect).
OldNewIntersect ==
    \A n \in Node, change \in Changes, retain \in Retain :
        LET old == Effective(node[n])
            new == Change(old, change, retain)
        IN  old.configs # <<>> /\ IsValid(new) =>
                \A q \in SUBSET Node : ~(IsQuorum(old.configs, q) /\ IsQuorum(new.configs, Node \ q))
==============================================================================
