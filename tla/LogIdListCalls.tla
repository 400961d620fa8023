--------------------------- MODULE LogIdListCalls ----------------------------
(***************************************************************************)
(* The calls an engine makes on its LogIdList over time, next to the full  *)
(* list of log ids it stands for, and the reload of the list at restart.   *)
(***************************************************************************)
EXTENDS LogIdList

CONSTANTS
    MaxIndex,    \* the greatest log index
    MaxLeader,   \* the leaders that append are 1..MaxLeader
    MaxBatch     \* entries appended by one call

VARIABLES
    keys,   \* RaftState.log_ids
    full,   \* all log ids: the purged one, if any, and those in the log store
    purged, \* the last purged log id of the log store
    search  \* the search of a restarting node, NoSearch if there is none

vars == <<keys, full, purged, search>>

NoSearch == [stack |-> <<>>, res |-> <<>>]

LastFull == IF full = <<>> THEN NoLogId ELSE Last(full)

\* The log id at index i among all log ids.
FullAt(i) ==
    LET k == i - full[1].index + 1
    IN  IF full # <<>> /\ k \in DOMAIN full THEN full[k] ELSE NoLogId

\* The batches of log ids that can follow the last one.
Batches ==
    {b \in UNION {[1..n -> LastFull.term..MaxLeader] : n \in 1..MaxBatch} :
        /\ LastFull.index + Len(b) <= MaxIndex
        /\ \A i \in 1..Len(b) - 1 : b[i] <= b[i + 1]}

IdsOf(b) ==
    [i \in DOMAIN b |-> [term |-> b[i], node |-> NoNode, index |-> LastFull.index + i]]

Init ==
    /\ keys = <<>>
    /\ full = <<>>
    /\ purged = NoLogId
    /\ search = NoSearch

\* A follower appends entries, possibly of several leaders.
FollowerAppend ==
    /\ search = NoSearch
    /\ \E b \in Batches :
          /\ keys' = Extend(keys, IdsOf(b))
          /\ full' = full \o IdsOf(b)
    /\ UNCHANGED <<purged, search>>

\* A leader appends entries of its own.
LeaderAppend ==
    /\ search = NoSearch
    /\ \E b \in Batches :
          /\ b[1] = Last(b)
          /\ keys' = ExtendFromSameLeader(keys, IdsOf(b))
          /\ full' = full \o IdsOf(b)
    /\ UNCHANGED <<purged, search>>

\* A conflicting log and those after it are deleted.
TruncateLogs ==
    /\ search = NoSearch
    /\ \E k \in DOMAIN full :
          /\ full[k].index > purged.index
          /\ keys' = Truncate(keys, full[k].index)
          /\ full' = SubSeq(full, 1, k - 1)
    /\ UNCHANGED <<purged, search>>

\* Logs in a snapshot are purged, or a snapshot beyond the log is installed.
PurgeLogs ==
    /\ search = NoSearch
    /\ \E i \in purged.index + 1 .. MaxIndex, t \in 1..MaxLeader :
          LET upto == IF i <= LastFull.index THEN FullAt(i)
                      ELSE [term |-> t, node |-> NoNode, index |-> i]
          IN  /\ keys' = Purge(keys, upto)
              /\ full' = IF i <= LastFull.index
                         THEN SubSeq(full, i - full[1].index + 1, Len(full))
                         ELSE <<upto>>
              /\ purged' = upto
    /\ UNCHANGED search

\* A restart: StorageHelper::get_key_log_ids.  A list of at most the purged log
\* id needs no search.
StartLoad ==
    /\ search = NoSearch
    /\ LastFull # purged
    /\ search' = NewSearch(FullAt(purged.index + 1), LastFull)
    /\ UNCHANGED <<keys, full, purged>>

LoadStep ==
    /\ search.stack # <<>>
    /\ search' = SearchStep(search, FullAt(MidIndex(Last(search.stack))))
    /\ UNCHANGED <<keys, full, purged>>

FinishLoad ==
    /\ search.stack = <<>> /\ search.res # <<>>
    /\ keys' = WithPurged(SearchResult(search, LastFull), purged)
    /\ search' = NoSearch
    /\ UNCHANGED <<full, purged>>

Next ==
    \/ FollowerAppend \/ LeaderAppend \/ TruncateLogs \/ PurgeLogs
    \/ StartLoad \/ LoadStep \/ FinishLoad

Spec == Init /\ [][Next]_vars /\ WF_vars(LoadStep) /\ WF_vars(FinishLoad)

------------------------------------------------------------------------------
\* The compressed list answers like the full one: ref_at is the log id at every
\* index that is in the log or is the purged one, and None at any other;
\* by_last_leader, from which a new leader tells whether it has already
\* proposed a log, is the first and the last log id known of the last leader.
ListAgrees ==
    /\ \A i \in 1..MaxIndex + 1 : RefAt(keys, i) = FullAt(i)
    /\ full # <<>> =>
           /\ ByLastLeader(keys).last = LastFull
           /\ ByLastLeader(keys).first =
                 FullAt(Min({full[k].index : k \in
                     {j \in DOMAIN full : LeaderOf(full[j]) = LeaderOf(LastFull)}}))

\* The search of a restarting node terminates, and with the list that the node
\* had before, key by key (get_key_log_ids).
LoadRestoresKeys ==
    search # NoSearch ~>
        /\ search.stack = <<>> /\ search.res # <<>>
        /\ WithPurged(SearchResult(search, LastFull), purged) = keys
==============================================================================
