-------------------------- MODULE MembershipProofs ---------------------------
(***************************************************************************)
(* Membership::change never leads to a membership whose quorums may miss   *)
(* those of the one before, for every finite set of nodes, every joint     *)
(* config and every change.                                                *)
(***************************************************************************)
EXTENDS MembershipChange, VoteProofs

\* Joint::find_coherent: the next config shares a set of voters with the last.
LEMMA FindCoherentShares ==
    ASSUME NEW joint \in Configs, joint # <<>>, NEW goal
    PROVE  \E a \in DOMAIN joint, b \in DOMAIN FindCoherent(joint, goal) :
               joint[a] = FindCoherent(joint, goal)[b]
  <1>1. CASE IsCoherentWith(joint, goal)
    <2>1. FindCoherent(joint, goal) = <<goal>>
      BY <1>1 DEF FindCoherent
    <2>2. 1 \in DOMAIN FindCoherent(joint, goal) /\ FindCoherent(joint, goal)[1] = goal
      BY <2>1
    <2>. QED
      BY <1>1, <2>2 DEF IsCoherentWith
  <1>2. CASE ~IsCoherentWith(joint, goal)
    <2>1. FindCoherent(joint, goal) = <<joint[Len(joint)], goal>>
      BY <1>2 DEF FindCoherent
    <2>2. 1 \in DOMAIN FindCoherent(joint, goal) /\ FindCoherent(joint, goal)[1] = joint[Len(joint)]
      BY <2>1
    <2>3. Len(joint) \in DOMAIN joint
      BY DEF Configs
    <2>. QED
      BY <2>2, <2>3
  <1>. QED
    BY <1>1, <1>2

\* Membership::change: the config is that of find_coherent, or as it was.
LEMMA ChangeShares ==
    ASSUME NEW m \in Members, m.configs # <<>>, NEW change \in ChangeMembers, NEW retain
    PROVE  \E a \in DOMAIN m.configs, b \in DOMAIN Change(m, change, retain).configs :
               m.configs[a] = Change(m, change, retain).configs[b]
  <1>1. m.configs \in Configs /\ 1 \in DOMAIN m.configs
    BY DEF Members, Configs
  <1>2. CASE change.kind \in {"AddNodes", "SetNodes", "RemoveNodes", "ReplaceAllNodes"}
    <2>1. Change(m, change, retain).configs = m.configs
      BY <1>2 DEF Change, ExtendNodes, Members
    <2>. QED
      BY <1>1, <2>1
  <1>3. CASE change.kind \in {"AddVoterIds", "AddVoters", "RemoveVoters", "ReplaceAllVoters"}
    <2>1. PICK goal : Change(m, change, retain).configs = FindCoherent(m.configs, goal)
      BY <1>3 DEF Change, NextCoherent, ExtendNodes, Members
    <2>. QED
      BY <1>1, <2>1, FindCoherentShares
  <1>. QED
    BY <1>2, <1>3 DEF ChangeMembers

\* docs/data/extended-membership.md, "old-new-intersect": every quorum of a
\* membership shares a node with every quorum of what Membership::change makes of
\* it, in one step, joint or not.
THEOREM ChangeIntersects ==
    ASSUME IsFiniteSet(Node), NEW m \in Members, m.configs # <<>>,
           NEW change \in ChangeMembers, NEW retain,
           NEW q, NEW r, IsQuorum(m.configs, q), IsQuorum(Change(m, change, retain).configs, r)
    PROVE  q \cap r # {}
  <1>1. PICK a \in DOMAIN m.configs, b \in DOMAIN Change(m, change, retain).configs :
            m.configs[a] = Change(m, change, retain).configs[b]
    BY ChangeShares
  <1>2. m.configs[a] \subseteq Node
    BY DEF Members, Configs
  <1>3. IsFiniteSet(m.configs[a])
    BY <1>2, FS_Subset
  <1>. QED
    BY <1>1, <1>3, SharedConfigIntersects

\* Wherever nodes hold memberships, in effect or not yet committed, a change that
\* is proposed there meets OldNewIntersect.
THEOREM ChangesIntersect ==
    ASSUME IsFiniteSet(Node)
    PROVE  TypeOK => OldNewIntersect
  <1>. SUFFICES ASSUME TypeOK, NEW n \in Node, NEW change \in Changes, NEW retain \in Retain,
                       Effective(node[n]).configs # <<>>, NEW q \in SUBSET Node,
                       IsQuorum(Effective(node[n]).configs, q),
                       IsQuorum(Change(Effective(node[n]), change, retain).configs, Node \ q)
                PROVE  FALSE
    BY DEF OldNewIntersect
  <1>1. Effective(node[n]) \in Members
    BY DEF TypeOK, Effective, MembershipState, Stored
  <1>2. q \cap (Node \ q) # {}
    BY <1>1, ChangesAssumption, ChangeIntersects
  <1>. QED
    BY <1>2
==============================================================================
