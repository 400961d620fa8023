----------------------------- MODULE VecProgress -----------------------------
(***************************************************************************)
(* VecProgress (openraft/src/progress/mod.rs): the leader's vector of      *)
(* per-node progress values and the greatest value a quorum has granted.   *)
(*                                                                         *)
(* The algorithm is given as operators on a progress record: ProgressCalls *)
(* drives a single one with every legal sequence of calls, and the engine  *)
(* uses the same definitions for the matching log ids of its followers.    *)
(*                                                                         *)
(* Values are compared with the constant operator Lt: the values are       *)
(* Option<LogId> for log progress and Option<Instant> for clock progress.  *)
(***************************************************************************)
EXTENDS QuorumSet

CONSTANTS
    Lt(_, _),   \* strict order of the progress values
    Bottom      \* the value of default_v(): None

Leq(a, b) == a = b \/ Lt(a, b)

\* The iteration order of a BTreeSet of node ids
AscendingIds(S) ==
    [i \in 1..Cardinality(S) |-> CHOOSE x \in S : Cardinality({y \in S : y < x}) = i - 1]

\* VecProgress for a set of values
Progress(Values) ==
    [quorum_set : Seq(SUBSET Nat), granted : Values, voter_count : Nat,
     vector : Seq([id : Nat, val : Values])]

\* VecProgress::new: the voters in ascending order, then the learners, all of
\* them with the default value.
NewProgress(joint, learners) ==
    LET voters == AscendingIds(QuorumIds(joint))
        others == AscendingIds(learners)
    IN  [quorum_set  |-> joint,
         granted     |-> Bottom,
         voter_count |-> Len(voters),
         vector      |-> [i \in 1..(Len(voters) + Len(others)) |->
                             [id  |-> (voters \o others)[i],
                              val |-> Bottom]]]

Ids(p) == {p.vector[i].id : i \in DOMAIN p.vector}

Voters(p) == {p.vector[i].id : i \in 1..p.voter_count}

\* VecProgress::index: the first element of the given id.
IndexOf(p, id) ==
    LET found == {i \in DOMAIN p.vector : p.vector[i].id = id}
    IN  IF found = {} THEN 0 ELSE CHOOSE i \in found : \A j \in found : i <= j

ValueOf(p, id) == p.vector[IndexOf(p, id)].val

\* VecProgress::move_up: an element is swapped with its predecessor as long as
\* the predecessor is smaller.  This is the index at which it comes to rest.
MoveUp(vector, k) ==
    CHOOSE j \in 1..k :
        /\ j = 1 \/ ~Lt(vector[j - 1].val, vector[k].val)
        /\ \A i \in j..(k - 1) : Lt(vector[i].val, vector[k].val)

\* The vector with element k at index j and those in between one further down.
MoveTo(vector, k, j) ==
    [i \in DOMAIN vector |-> IF i = j THEN vector[k]
                             ELSE IF i \in j..k THEN vector[i - 1]
                             ELSE vector[i]]

\* The scan of update_with for the max value that constitutes a quorum: from
\* the moved element downwards, until a value that is already granted.  The
\* elements above an examined one are taken to be at least as great.
ScanGranted(p, vector, from) ==
    LET above == {i \in from..p.voter_count :
                     \A j \in from..i : Lt(p.granted, vector[j].val)}
        quorum == {i \in above :
                     IsQuorum(p.quorum_set, {vector[j].id : j \in 1..i})}
    IN  IF quorum = {} THEN p.granted
        ELSE vector[CHOOSE i \in quorum : \A j \in quorum : i <= j].val

\* Variant of UpdateWith in which prev_le_granted is a strict comparison.
UpdateWithStrictCrossing(p, id, v) ==
    LET k     == IndexOf(p, id)
        prev  == p.vector[k].val
        set   == [p.vector EXCEPT ![k].val = v]
        j     == MoveUp(set, k)
        moved == MoveTo(set, k, j)
    IN  IF k = 0
        THEN p
        ELSE IF k > p.voter_count \/ ~(Lt(prev, p.granted) /\ Lt(p.granted, v))
        THEN [p EXCEPT !.vector = set]
        ELSE [p EXCEPT !.vector = moved, !.granted = ScanGranted(p, moved, j)]

\* VecProgress::update_with for a value that is not below the current one.
\* Learners are never moved and never grant a value; a voter is moved and the
\* granted value is computed again only if the update crosses granted.
UpdateWith(p, id, v) ==
    LET k       == IndexOf(p, id)
        prev    == p.vector[k].val
        set     == [p.vector EXCEPT ![k].val = v]
        crosses == Leq(prev, p.granted) /\ Lt(p.granted, v)
        j       == MoveUp(set, k)
        moved   == MoveTo(set, k, j)
    IN  IF k = 0
        THEN p
        ELSE IF prev = v \/ k > p.voter_count \/ ~crosses
        THEN [p EXCEPT !.vector = set]
        ELSE [p EXCEPT !.vector = moved, !.granted = ScanGranted(p, moved, j)]

\* Progress::increase_to: a value that is not greater leaves everything alone.
IncreaseTo(p, id, v) ==
    IF id \in Ids(p) /\ Lt(ValueOf(p, id), v) THEN UpdateWith(p, id, v) ELSE p

------------------------------------------------------------------------------
\* The values a quorum really holds: the reference definition of
\* "granted by a quorum", independent of the order of the vector.
HeldByQuorum(p, v) ==
    IsQuorum(p.quorum_set, {id \in Voters(p) : Leq(v, ValueOf(p, id))})
==============================================================================
