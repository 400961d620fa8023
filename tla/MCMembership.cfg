\* Changes of the membership with two leaders, a restart and a snapshot.
CONSTANTS
    Node = {1, 2, 3}
    StdLeaderId = TRUE
    FirstVoters = {1, 2, 3}
    Changes <- RemoveAndAdd
    Retain = {FALSE}
    Electable = {1, 2}
    Writable = {2}
    MaxTerm = 2
    MaxLog = 4
    MaxDisruptions = 1
SPECIFICATION Spec
INVARIANT
    OldNewIntersect
    
    
CHECK_DEADLOCK FALSE
