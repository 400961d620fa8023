----------------------------- MODULE Membership ------------------------------
(***************************************************************************)
(* Memberships, the changes that can be made to them and the pair of       *)
(* memberships a node keeps (openraft/src/membership,                      *)
(* raft_state/membership_state, quorum/coherent_impl.rs).                  *)
(*                                                                         *)
(* A membership is the joint config of its voters and the ids of all its   *)
(* nodes, voters and learners; what is stored with a node id (addresses)   *)
(* is left out.  A stored membership also has the log id of its entry.     *)
(***************************************************************************)
EXTENDS QuorumSet, RaftTypes

Configs == Seq(SUBSET Node)

Members == [configs : Configs, nodes : SUBSET Node]

\* Membership::default(): a pristine node knows of nobody.
NoMembers == [configs |-> <<>>, nodes |-> {}]

VoterIds(m) == QuorumIds(m.configs)

IsVoter(m, n) == n \in VoterIds(m)

Contains(m, n) == n \in m.nodes

LearnerIds(m) == m.nodes \ VoterIds(m)

\* Membership::ensure_valid: no empty config, every voter has a node.
IsValid(m) ==
    /\ \A i \in DOMAIN m.configs : m.configs[i] # {}
    /\ VoterIds(m) \subseteq m.nodes

\* Membership::extend_nodes: what is stored with a node that is known stays.
ExtendNodes(m, ids) == [m EXCEPT !.nodes = @ \cup ids]

------------------------------------------------------------------------------
\* Joint::is_coherent_with: one of the configs is the other quorum set.
IsCoherentWith(joint, config) == \E i \in DOMAIN joint : joint[i] = config

\* Variant: without the joint config in between.
FindCoherentDirect(joint, goal) == <<goal>>

\* Joint::find_coherent
FindCoherent(joint, goal) ==
    IF joint = <<>> \/ IsCoherentWith(joint, goal)
    THEN <<goal>>
    ELSE <<joint[Len(joint)], goal>>

\* Membership::next_coherent: voters that are removed leave, or stay as learners.
NextCoherent(m, goal, retain) ==
    LET configs == FindCoherent(m.configs, goal)
        removed == VoterIds(m) \ QuorumIds(configs)
    IN  [configs |-> configs, nodes |-> IF retain THEN m.nodes ELSE m.nodes \ removed]

LastConfig(m) == IF m.configs = <<>> THEN {} ELSE m.configs[Len(m.configs)]

ChangeMembers ==
    [kind : {"AddVoterIds", "AddVoters", "RemoveVoters", "ReplaceAllVoters",
             "AddNodes", "SetNodes", "RemoveNodes", "ReplaceAllNodes"},
     ids : SUBSET Node]

\* Membership::change, without the final check of ensure_valid.
Change(m, change, retain) ==
    LET ids == change.ids
        extended == ExtendNodes(m, ids)
    IN  CASE change.kind = "AddVoterIds"      -> NextCoherent(m, LastConfig(m) \cup ids, retain)
          [] change.kind = "AddVoters"        -> NextCoherent(extended, LastConfig(m) \cup ids, retain)
          [] change.kind = "RemoveVoters"     -> NextCoherent(m, LastConfig(m) \ ids, retain)
          [] change.kind = "ReplaceAllVoters" -> NextCoherent(m, ids, retain)
          [] change.kind = "AddNodes"         -> extended
          [] change.kind = "SetNodes"         -> extended
          [] change.kind = "RemoveNodes"      -> [m EXCEPT !.nodes = @ \ ids]
          [] change.kind = "ReplaceAllNodes"  -> [m EXCEPT !.nodes = ids]

------------------------------------------------------------------------------
\* StoredMembership, EffectiveMembership
Stored == [id : LogId, members : Members]

Store(id, m) == [id |-> id, members |-> m]

\* MembershipState: the last membership that is known to be committed and the
\* one in effect.
MembershipState == [committed : Stored, effective : Stored]

NewMembershipState(c, e) == [committed |-> c, effective |-> e]

NoMembershipState == NewMembershipState(Store(NoLogId, NoMembers), Store(NoLogId, NoMembers))

\* MembershipState::commit
CommitMembership(ms, committed) ==
    IF LogIdLeq(ms.effective.id, committed)
    THEN [ms EXCEPT !.committed = ms.effective]
    ELSE ms

\* MembershipState::update_committed: the effective one may be of a log that
\* conflicts with the leader's, so it is compared by index.
UpdateCommittedMembership(ms, c) ==
    [committed |-> IF LogIdLt(ms.committed.id, c.id) THEN c ELSE ms.committed,
     effective |-> IF ms.effective.id.index <= c.id.index THEN c ELSE ms.effective]

\* MembershipState::append
AppendMembership(ms, m) == NewMembershipState(ms.effective, m)

\* Variant: a truncated membership stays in effect.
KeepMembership(ms, since) == ms

\* MembershipState::truncate: back to the committed one if the effective one is
\* at or after since.
TruncateMembership(ms, since) ==
    IF since <= ms.effective.id.index
    THEN [ms EXCEPT !.effective = ms.committed]
    ELSE ms

\* ChangeHandler::ensure_committed
EnsureCommitted(ms) == ms.effective.id = ms.committed.id
==============================================================================
