------------------------------ MODULE LogIdList ------------------------------
(***************************************************************************)
(* LogIdList (openraft/src/engine/log_id_list.rs): the log ids of a node,  *)
(* compressed to the purged one, the first one of every leader and the     *)
(* last one.  The operators map a list of key log ids to a list.           *)
(***************************************************************************)
EXTENDS RaftTypes, SequencesExt

LeaderOf(id) == [term |-> id.term, node |-> id.node]

\* Ord of CommittedLeaderId
LeaderLt(a, b) == a.term < b.term \/ (a.term = b.term /\ a.node < b.node)

\* binary_search_by on the index: how many keys come before index i, and
\* whether there is a key at i.
Before(keys, i) == Cardinality({k \in DOMAIN keys : keys[k].index < i})

HasKey(keys, i) == \E k \in DOMAIN keys : keys[k].index = i

\* Variant of AppendId that always replaces the last log id.
AppendIdReplacing(keys, id) ==
    IF Len(keys) >= 2 THEN [keys EXCEPT ![Len(keys)] = id] ELSE Append(keys, id)

\* append: a last log id that is not the first one of its leader is replaced.
AppendId(keys, id) ==
    LET l == Len(keys)
    IN  IF l >= 2 /\ LeaderOf(keys[l - 1]) = LeaderOf(keys[l])
        THEN [keys EXCEPT ![l] = id]
        ELSE Append(keys, id)

\* extend_from_same_leader: only the first and the last log id matter.
ExtendFromSameLeader(keys, ids) ==
    IF Len(ids) = 1 THEN AppendId(keys, ids[1])
    ELSE AppendId(AppendId(keys, ids[1]), Last(ids))

\* extend: a log id is a key if it is of a new leader or if it is the last.
Extend(keys, ids) ==
    LET add(ks, i) ==
            LET new == IF ks = <<>> \/ LeaderOf(Last(ks)) # LeaderOf(ids[i])
                       THEN AppendId(ks, ids[i]) ELSE ks
            IN  IF i = Len(ids) /\ Last(new) # ids[i] THEN AppendId(new, ids[i]) ELSE new
    IN  FoldLeftDomain(add, keys, ids)

\* truncate: the log before `at' becomes the last one, and a key.
Truncate(keys, at) ==
    LET kept == SubSeq(keys, 1, Before(keys, at))
    IN  IF kept # keys /\ kept # <<>> /\ Last(kept).index < at - 1
        THEN AppendId(kept, NewLogId(LeaderOf(Last(kept)), at - 1))
        ELSE kept

\* purge: an installed snapshot may purge beyond the last log id.
Purge(keys, upto) ==
    LET i == Before(keys, upto.index)
    IN  IF keys = <<>> \/ upto.index > Last(keys).index THEN <<upto>>
        ELSE IF upto.index < keys[1].index THEN keys
        ELSE IF HasKey(keys, upto.index) THEN SubSeq(keys, i + 1, Len(keys))
        ELSE [SubSeq(keys, i, Len(keys)) EXCEPT ![1].index = upto.index]

\* ref_at: the log id at index i, of the leader of the closest key before it.
RefAt(keys, i) ==
    LET k == Before(keys, i)
    IN  IF HasKey(keys, i) THEN keys[k + 1]
        ELSE IF k = 0 \/ k = Len(keys) THEN NoLogId
        ELSE NewLogId(LeaderOf(keys[k]), i)

\* by_last_leader of a list that is not empty.
ByLastLeader(keys) ==
    LET l == Len(keys)
    IN  [first |-> IF l >= 2 /\ LeaderOf(keys[l - 1]) = LeaderOf(keys[l])
                   THEN keys[l - 1] ELSE keys[l],
         last  |-> keys[l]]

------------------------------------------------------------------------------
\* get_key_log_ids loads the keys from the log of a restarted node by binary
\* search.  A search has a stack of ranges still to be searched and the keys
\* found so far, in order.

NewSearch(first, last) == [stack |-> <<[first |-> first, last |-> last]>>, res |-> <<>>]

\* A key is added to the result unless the leader's first one is there already.
PushKey(res, id) ==
    IF res = <<>> \/ LeaderLt(Last(res), id) THEN Append(res, id) ELSE res

\* Variant of NeedsMid that also searches between adjacent logs.
NeedsMidAdjacent(range) == LeaderOf(range.first) # LeaderOf(range.last)

\* Whether an iteration has to read the log in the middle of its range.
NeedsMid(range) ==
    /\ LeaderOf(range.first) # LeaderOf(range.last)
    /\ range.first.index + 1 # range.last.index

MidIndex(range) == (range.first.index + range.last.index) \div 2

\* One iteration, with the log id read in the middle if it needs one.
SearchStep(s, mid) ==
    LET range == Last(s.stack)
        rest  == Front(s.stack)
        lower == [first |-> range.first, last |-> mid]
        upper == [first |-> mid, last |-> range.last]
    IN  IF LeaderOf(range.first) = LeaderOf(range.last)
        THEN [stack |-> rest, res |-> PushKey(s.res, range.first)]
        ELSE IF ~NeedsMid(range)
        THEN [stack |-> rest, res |-> Append(PushKey(s.res, range.first), range.last)]
        ELSE IF LeaderOf(range.first) = LeaderOf(mid)
        THEN [stack |-> Append(rest, upper), res |-> PushKey(s.res, range.first)]
        ELSE IF LeaderOf(mid) = LeaderOf(range.last)
        THEN [stack |-> Append(rest, lower), res |-> s.res]
        ELSE [stack |-> rest \o <<upper, lower>>, res |-> s.res]

\* The result of a finished search, with the last log id always a key.
SearchResult(s, last) == IF Last(s.res) # last THEN Append(s.res, last) ELSE s.res

\* StorageHelper::get_key_log_ids puts the purged log id in front.
WithPurged(keys, purged) ==
    IF purged = NoLogId THEN keys
    ELSE IF LeaderOf(purged) = LeaderOf(keys[1]) /\ Len(keys) >= 2
    THEN [keys EXCEPT ![1] = purged]
    ELSE <<purged>> \o keys
==============================================================================
