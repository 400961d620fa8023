---------------------------- MODULE ProgressCalls ----------------------------
(***************************************************************************)
(* A single VecProgress under every legal sequence of the calls the        *)
(* replication handler makes: update_with and increase_to when a node      *)
(* reports progress, upgrade_quorum_set when a membership is appended.     *)
(***************************************************************************)
EXTENDS VecProgress, SequencesExt

CONSTANTS
    Values,     \* the values a progress may take, Bottom included
    Configs,    \* the joint quorum sets the progress may be built with
    LearnerSets \* the learner sets the progress may be built with

VARIABLE prog

\* VecProgress::upgrade_quorum_set: a new progress that inherits the values of
\* the ids it still tracks, applied in the order of the old vector.
UpgradeQuorumSet(p, joint, learners) ==
    FoldLeft(LAMBDA acc, e : UpdateWith(acc, e.id, e.val),
             NewProgress(joint, learners), p.vector)

\* A learner set is only combined with a joint quorum set it is disjoint from.
Init == \E joint \in Configs, learners \in LearnerSets :
            /\ learners \cap QuorumIds(joint) = {}
            /\ prog = NewProgress(joint, learners)

\* A node reports a new value; the callers never lower a value.
Update == \E id \in Ids(prog), v \in Values :
              /\ Leq(ValueOf(prog, id), v)
              /\ prog' = UpdateWith(prog, id, v)

Increase == \E id \in Ids(prog), v \in Values :
                prog' = IncreaseTo(prog, id, v)

\* A membership entry is appended by the leader (rebuild_progresses).
Upgrade == \E joint \in Configs, learners \in LearnerSets :
               /\ learners \cap QuorumIds(joint) = {}
               /\ prog' = UpgradeQuorumSet(prog, joint, learners)

Next == Update \/ Increase \/ Upgrade

Spec == Init /\ [][Next]_prog

------------------------------------------------------------------------------
\* The vector tracks each id once, with its voters in front and its learners
\* behind, whatever moves update_with makes.
TypeOK ==
    /\ prog.quorum_set \in Configs
    /\ prog.granted \in Values
    /\ Voters(prog) = QuorumIds(prog.quorum_set)
    /\ Len(prog.vector) = Cardinality(Ids(prog))
    /\ \A i \in DOMAIN prog.vector : prog.vector[i].val \in Values

\* The value update_with returns, which the leader commits, is held by a quorum
\* of the voters: learners, stale positions and earlier quorum sets never count.
GrantedByQuorum == HeldByQuorum(prog, prog.granted)

\* The granted value is held by a quorum, and no greater value is: skipping the
\* computation for updates that do not cross granted never misses a value that became committable.
GrantedIsGreatest ==
    /\ GrantedByQuorum
    /\ \A id \in Voters(prog) :
           HeldByQuorum(prog, ValueOf(prog, id)) => Leq(ValueOf(prog, id), prog.granted)
==============================================================================
