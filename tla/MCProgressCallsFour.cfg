SPECIFICATION Spec
CONSTANTS
    Lt <- NatLt
    Bottom = 0
    MaxValue = 3
    Values <- NatValues
    Configs <- FourVoters
    LearnerSets <- NoLearners
INVARIANT GrantedByQuorum
